---- MODULE Spec2Model ----
(***************************************************************************)
(* Lead Dataset Builder (main.py): the collection orchestrators            *)
(* (_run_google, _run_osm), the dedup ledger, the checkpoint store         *)
(* (load_checkpoint / save_checkpoint) and the two entry points (main,     *)
(* run_collection), as a state machine.                                    *)
(*                                                                         *)
(* Strings that the code takes apart (website URLs) are sequences of       *)
(* tokens of a fixed lexicon; every other string is a TLA+ string.         *)
(***************************************************************************)
EXTENDS Integers, Sequences, FiniteSets, TLC

\* ------------------------------------------------------------------------
\* Program constants
\* ------------------------------------------------------------------------
CHECKPOINT_INTERVAL == 100
CONCURRENT_EMAIL_WORKERS == 14
\* utils/places.py: defaults of _call_with_retry and collect_places_for_niche_city
max_retries == 5
base_delay == 2
min_text_results == 5
\* utils/email_extractor.py: default of extract_emails_from_website
max_pages == 2

\* ------------------------------------------------------------------------
\* Bounds of the model
\* ------------------------------------------------------------------------
\* Number of runs (process starts) in one behaviour.
MaxRuns == 2
\* Number of those runs that may be killed before they finish.
MaxCrashes == 1
\* The small lead budget; the large one is CHECKPOINT_INTERVAL + BudgetSmall.
BudgetSmall == 2
\* Longest leads list handed to save_checkpoint when it is exercised alone.
MaxLen == 2
\* Candidates of the pass that fills the worker pool: one more than the workers.
MaxBatch == 15
\* Most consecutive rate-limit failures the provider answers a call with.
MaxRateLimited == 5
\* Longest leads list handed to export_csv when it is exercised alone.
MaxExport == 2
\* Most tokens of a raw website string handed to _normalize_website.
MaxUrlLen == 4
\* Most addresses the pattern matches in the markup of one page.
MaxMatches == 2
\* Most invocations of the wrapped call whose outcome is laid down in advance.
MaxCalls == 6
\* Most calls of get_city_bbox in one process.
MaxBboxCalls == 3

None == "None"
Nill == <<"Nill">>

\* ------------------------------------------------------------------------
\* Websites and the dedup domain
\* ------------------------------------------------------------------------
SchemeTokens == {"http://", "https://"}
PathTokens == {"/", "/kontakt", "/contact", "/impressum"}

\* str.lower() on one token of the lexicon.
Lower(t) ==
    CASE t = "WWW." -> "www."
      [] t = "A.DE" -> "a.de"
      [] OTHER -> t

RECURSIVE LowerAll(_)
LowerAll(s) == IF s = <<>> THEN <<>> ELSE <<Lower(Head(s))>> \o LowerAll(Tail(s))

\* str.replace("www.", ""): every occurrence is removed, not only a leading one.
RECURSIVE RemoveWww(_)
RemoveWww(s) ==
    IF s = <<>> THEN <<>>
    ELSE IF Head(s) = "www." THEN RemoveWww(Tail(s))
    ELSE <<Head(s)>> \o RemoveWww(Tail(s))

\* The tokens of s before the first path token.
RECURSIVE UpToPath(_)
UpToPath(s) ==
    IF s = <<>> \/ Head(s) \in PathTokens THEN <<>>
    ELSE <<Head(s)>> \o UpToPath(Tail(s))

\* urlparse(url).netloc: the authority after the scheme, empty without a scheme.
Netloc(url) ==
    IF url # <<>> /\ Head(url) \in SchemeTokens THEN UpToPath(Tail(url)) ELSE <<>>

\* urlparse(url).path.
UrlPath(url) ==
    IF url # <<>> /\ Head(url) \in SchemeTokens
    THEN SubSeq(url, Len(Netloc(url)) + 2, Len(url))
    ELSE url

\* get_domain_for_dedup / _extract_domain: (netloc or path).lower().replace("www.", "")
get_domain_for_dedup(url) ==
    LET host == IF Netloc(url) # <<>> THEN Netloc(url) ELSE UrlPath(url)
    IN RemoveWww(LowerAll(host))

\* ------------------------------------------------------------------------
\* Upstream: what the providers return for each (niche, city) pair
\* ------------------------------------------------------------------------
Niches == <<"n1", "n2">>
Cities == <<"c1", "c2">>

Place(id, site) == [place_id |-> id, website |-> site]

pA == Place("p1", <<"https://", "a.de">>)
\* same dedup domain as pA
pB == Place("p2", <<"https://", "WWW.", "A.DE", "/kontakt">>)
\* websites with an empty dedup domain
pC == Place("p3", <<"http://">>)
pD == Place("p4", <<"https://", "www.">>)
pE == Place("p5", <<"https://", "b.de">>)
pF == Place("p6", <<"https://", "c.de">>)

\* The valid places the provider holds for a pair, in the order it returns them.
RawUpstream(niche, city) ==
    CASE niche = "n1" /\ city = "c1" -> <<pA, pB, pC, pE>>
      [] niche = "n1" /\ city = "c2" -> <<pA, pD>>
      [] niche = "n2" /\ city = "c1" -> <<>>
      [] OTHER -> <<pE, pF, pB>>

\* collect_osm_places_for_niche_city: merged with dedup by place_id inside the call.
RECURSIVE OsmMerge(_, _, _)
OsmMerge(raw, seen_ids, all_places) ==
    IF raw = <<>> THEN all_places
    ELSE LET p == Head(raw) IN
         IF p.place_id \notin seen_ids
         THEN OsmMerge(Tail(raw), seen_ids \cup {p.place_id}, Append(all_places, p))
         ELSE OsmMerge(Tail(raw), seen_ids, all_places)

collect_osm_places_for_niche_city(niche, city) ==
    OsmMerge(RawUpstream(niche, city), {}, <<>>)

\* Variant of GoogleMerge that dedups by place_id only.
RECURSIVE GoogleMerge_IdOnly(_, _, _, _)
GoogleMerge_IdOnly(raw, seen_ids, seen_doms, valid_places) ==
    IF raw = <<>> THEN valid_places
    ELSE LET p == Head(raw)
         IN IF p.place_id \notin seen_ids
            THEN GoogleMerge_IdOnly(Tail(raw), seen_ids \cup {p.place_id},
                                    seen_doms, Append(valid_places, p))
            ELSE GoogleMerge_IdOnly(Tail(raw), seen_ids, seen_doms, valid_places)

\* collect_places_for_niche_city: dedup by place_id and by domain inside the call.
RECURSIVE GoogleMerge(_, _, _, _)
GoogleMerge(raw, seen_ids, seen_doms, valid_places) ==
    IF raw = <<>> THEN valid_places
    ELSE LET p == Head(raw)
             domain == get_domain_for_dedup(p.website)
         IN IF p.place_id \notin seen_ids /\ domain \notin seen_doms
            THEN GoogleMerge(Tail(raw), seen_ids \cup {p.place_id},
                             seen_doms \cup {domain}, Append(valid_places, p))
            ELSE GoogleMerge(Tail(raw), seen_ids, seen_doms, valid_places)

collect_places_for_niche_city(niche, city) ==
    GoogleMerge(RawUpstream(niche, city), {}, {}, <<>>)

\* ------------------------------------------------------------------------
\* The email harvester (utils/email_extractor.py) and the web it visits
\* ------------------------------------------------------------------------
\* What a host answers: its robots policy ("allow", "deny": the harvester's
\* user agent is disallowed everywhere, "deny_pages": only the contact pages
\* are disallowed, "error": robots.txt cannot be read), its pages (fetched or
\* not, and the valid addresses in the markup), and whether the visit raises
\* once the robots check has passed (a URL urlparse rejects, markup the
\* parser fails on).
Page(ok, emails) == [ok |-> ok, emails |-> emails]
NoPage == Page(FALSE, <<>>)
Site(robots, home, contact, broken) ==
    [robots |-> robots, home |-> home, contact |-> contact, broken |-> broken]

\* The hosts behind the websites of the upstream catalogue.
Host(website_url) ==
    CASE get_domain_for_dedup(website_url) = <<"a.de">> ->
            Site("allow", Page(TRUE, <<"info@a.de">>), Page(TRUE, <<"info@a.de">>), FALSE)
      [] get_domain_for_dedup(website_url) = <<"b.de">> ->
            Site("error", Page(TRUE, <<>>), Page(TRUE, <<"b@gmail.com">>), FALSE)
      [] get_domain_for_dedup(website_url) = <<"c.de">> ->
            Site("allow", NoPage, NoPage, TRUE)
      [] OTHER -> Site("error", NoPage, NoPage, FALSE)

\* RobotFileParser.can_fetch(user_agent, url) under a policy that was read.
RobotsCanFetch(site, url) ==
    CASE site.robots = "deny" -> FALSE
      [] site.robots = "deny_pages" -> UrlPath(url) \in {<<>>, <<"/">>}
      [] OTHER -> TRUE

\* Variant of _check_robots_allowed that never consults the policy.
_check_robots_allowed_Always(url, site) == TRUE

\* _check_robots_allowed: on error, allow.
_check_robots_allowed(url, site) ==
    IF site.robots = "error" THEN TRUE ELSE RobotsCanFetch(site, url)

\* _get_candidate_urls(website, max_pages=2): homepage, /kontakt, /contact,
\* /impressum without duplicates, the first two.
_get_candidate_urls(website) ==
    LET base == <<Head(website)>> \o Netloc(website)
        base_path == IF UrlPath(website) \in {<<>>, <<"/">>} THEN <<"/">> ELSE UrlPath(website)
        all == <<base \o base_path, base \o <<"/kontakt">>, base \o <<"/contact">>,
                 base \o <<"/impressum">>>>
        unique == SelectSeq([i \in 1..4 |-> [u |-> all[i], first |-> \A k \in 1..(i - 1) : all[k] # all[i]]],
                            LAMBDA c : c.first)
    IN [i \in 1..2 |-> unique[i].u]

\* _fetch_page: the page of the host at this URL, None when the fetch fails.
_fetch_page(url, site) ==
    CASE UrlPath(url) \in {<<>>, <<"/">>} -> site.home
      [] UrlPath(url) = <<"/kontakt">> -> site.contact
      [] OTHER -> NoPage

\* sep.join(strings)
RECURSIVE Join(_, _)
Join(sep, strings) ==
    IF strings = <<>> THEN ""
    ELSE IF Len(strings) = 1 THEN strings[1]
    ELSE strings[1] \o sep \o Join(sep, Tail(strings))

\* extract_emails_from_website given what the host answers: the unique
\* addresses, the source hint, the pages fetched, and whether it raised.
ExtractEmails(website_url, site) ==
    IF website_url = <<>> \/ Head(website_url) \notin SchemeTokens
    THEN [raised |-> FALSE, emails |-> <<>>, source |-> "", fetched |-> <<>>]
    ELSE IF ~_check_robots_allowed(website_url, site)
    THEN [raised |-> FALSE, emails |-> <<>>, source |-> "robots_blocked", fetched |-> <<>>]
    ELSE IF site.broken
    THEN [raised |-> TRUE, emails |-> <<>>, source |-> "", fetched |-> <<>>]
    ELSE LET urls == _get_candidate_urls(website_url)
             p1 == _fetch_page(urls[1], site)
             p2 == _fetch_page(urls[2], site)
             e1 == IF p1.ok THEN p1.emails ELSE <<>>
             e2 == IF p2.ok THEN SelectSeq(p2.emails, LAMBDA e : \A k \in DOMAIN e1 : e1[k] # e)
                   ELSE <<>>
         IN [raised |-> FALSE,
             emails |-> e1 \o e2,
             source |-> Join(",", [k \in DOMAIN e1 |-> "homepage"] \o [k \in DOMAIN e2 |-> "page_1"]),
             fetched |-> urls]

\* A pass whose upstream answer is larger than the worker pool: place i of it.
BatchPlace(i) == Place(ToString(i), <<"https://", ToString(i)>>)

\* The websites of the upstream catalogue.
Websites ==
    {pA.website, pB.website, pC.website, pD.website, pE.website, pF.website}
        \cup {BatchPlace(i).website : i \in 1..MaxBatch}

\* What a harvest of each website of the catalogue returns.
Harvests == [u \in Websites |-> ExtractEmails(u, Host(u))]

\* extract_emails_from_website on the web of the catalogue.
extract_emails_from_website(website_url) == Harvests[website_url]

\* ------------------------------------------------------------------------
\* Leads
\* ------------------------------------------------------------------------
\* place_to_lead / osm_place_to_lead: the fields the orchestrator and the
\* exporter read (the other columns are copied from the place unchanged).
place_to_lead(place, niche, city) ==
    [niche |-> niche, city |-> city, place_id |-> place.place_id,
     website_url |-> IF place.website # <<>> THEN place.website ELSE Nill,
     emails_found |-> "Nill", email_source_page |-> "", gmail_addresses |-> ""]

\* "; ".join(emails) if emails else "Nill"
JoinEmails(emails) == IF emails = <<>> THEN "Nill" ELSE Join("; ", emails)

\* _gmail_addresses_from_emails: the addresses at gmail.com or googlemail.com.
GMAIL_DOMAINS == {"gmail.com", "googlemail.com"}

\* e.split("@")[-1].lower() for the addresses of the catalogue's web.
EmailDomain(e) ==
    CASE e = "info@a.de" -> "a.de"
      [] e = "b@gmail.com" -> "gmail.com"
      [] OTHER -> ""

_gmail_addresses_from_emails(emails) ==
    Join("; ", SelectSeq(emails, LAMBDA e : EmailDomain(e) \in GMAIL_DOMAINS))

\* _process_place_emails, and the same lines inlined in _run_google: a harvest
\* that raises leaves the lead as place_to_lead built it.
_process_place_emails(place, niche, city) ==
    LET lead == place_to_lead(place, niche, city)
        harvest == extract_emails_from_website(place.website)
    IN  IF place.website = <<>> \/ harvest.raised THEN lead
        ELSE [lead EXCEPT !.emails_found = JoinEmails(harvest.emails),
                          !.email_source_page = harvest.source,
                          !.gmail_addresses = _gmail_addresses_from_emails(harvest.emails)]

\* The dedup domain of a lead's website ("Nill": no website).
LeadDomain(lead) ==
    IF lead.website_url = Nill THEN <<>> ELSE get_domain_for_dedup(lead.website_url)

\* ------------------------------------------------------------------------
\* Checkpoint store
\* ------------------------------------------------------------------------
DefaultPath == "outputs/checkpoint.json"
TmpPath == "/tmp/checkpoint.json"
WorkPath == "work/checkpoint.json"
Paths == {DefaultPath, TmpPath, WorkPath}

\* _writable_checkpoint_path: the requested path, else /tmp on Vercel, else the default.
_writable_checkpoint_path(requested, vercel_env) ==
    IF requested # None THEN requested
    ELSE IF vercel_env THEN TmpPath
    ELSE DefaultPath

\* JSON values: arrays, objects, strings (as their characters), numbers and null.
JArray(s) == [t |-> "array", v |-> s]
JObject(r) == [t |-> "object", v |-> r]
JString(s) == [t |-> "string", v |-> s]
JNumber(n) == [t |-> "number", v |-> n]
JNull == [t |-> "null", v |-> 0]

\* A file: absent, unreadable (open() fails), torn (a write that did not finish:
\* a strict prefix of a JSON text, which no JSON parser accepts) or a JSON text.
FileAbsent == [kind |-> "absent", value |-> JNull]
FileUnreadable == [kind |-> "unreadable", value |-> JNull]
FileTorn == [kind |-> "torn", value |-> JNull]
FileJson(j) == [kind |-> "json", value |-> j]

Range(s) == {s[i] : i \in DOMAIN s}

\* Variant of SetToList that leaves one element out.
SetToList_Short(S) ==
    LET x == CHOOSE y \in S : TRUE
    IN  IF S = {} THEN <<>> ELSE IF S = {x} THEN <<>> ELSE <<CHOOSE y \in S : y # x>>

\* list(a_set): the elements in some order.
SetToList(S) ==
    LET Pick(T) == CHOOSE y \in T : TRUE
        list[T \in SUBSET S] ==
            IF T = {} THEN <<>>
            ELSE LET x1 == Pick(T)
                     T1 == T \ {x1}
                 IN  IF T1 = {} THEN <<x1>>
                     ELSE LET x2 == Pick(T1)
                              T2 == T1 \ {x2}
                          IN  IF T2 = {} THEN <<x1, x2>>
                              ELSE LET x3 == Pick(T2)
                                       T3 == T2 \ {x3}
                                   IN  IF T3 = {} THEN <<x1, x2, x3>>
                                       ELSE LET x4 == Pick(T3)
                                            IN  <<x1, x2, x3, x4>> \o list[T3 \ {x4}]
    IN list[S]

\* json.dump of a lead: an object of strings.
JsonLead(lead) == JObject([k \in DOMAIN lead |-> JString(lead[k])])

\* json.dump of the leads list.
JsonLeads(leads_) == JArray([i \in DOMAIN leads_ |-> JsonLead(leads_[i])])

\* json.dump of list(a_set_of_strings).
JsonStrings(S) == JArray(SetToList({JString(x) : x \in S}))

\* Variant of CheckpointJson that writes no seen_place_ids.
CheckpointJson_NoIds(leads_, place_ids, domains) ==
    JObject([leads |-> JsonLeads(leads_),
             seen_place_ids |-> JArray(<<>>),
             seen_domains |-> JsonStrings(domains)])

\* Variant of CheckpointJson that writes no seen_domains.
CheckpointJson_NoDomains(leads_, place_ids, domains) ==
    JObject([leads |-> JsonLeads(leads_),
             seen_place_ids |-> JsonStrings(place_ids),
             seen_domains |-> JArray(<<>>)])

\* The text save_checkpoint writes: one object holding the three fields.
CheckpointJson(leads_, place_ids, domains) ==
    JObject([leads |-> JsonLeads(leads_),
             seen_place_ids |-> JsonStrings(place_ids),
             seen_domains |-> JsonStrings(domains)])

\* save_checkpoint: the file after a write that finished.
save_checkpoint(leads_, place_ids, domains) ==
    FileJson(CheckpointJson(leads_, place_ids, domains))

EmptyLedger == [leads |-> <<>>, seen_place_ids |-> {}, seen_domains |-> {}]

\* data.get(key, [])
JsonGet(data, key) == IF key \in DOMAIN data.v THEN data.v[key] ELSE JArray(<<>>)

\* json.load: the Python value of a JSON value.
RECURSIVE PyOf(_)
PyOf(j) ==
    CASE j.t = "array" -> [i \in DOMAIN j.v |-> PyOf(j.v[i])]
      [] j.t = "object" -> [k \in DOMAIN j.v |-> PyOf(j.v[k])]
      [] j.t = "null" -> None
      [] OTHER -> j.v

\* set(x) raises TypeError unless x is iterable and its elements are hashable.
\* A string that the program iterates is held as the sequence of its characters.
PySetRaises(j) ==
    \/ j.t \notin {"array", "string", "object"}
    \/ j.t = "array" /\ \E i \in DOMAIN j.v : j.v[i].t \in {"array", "object"}
PySet(j) ==
    CASE j.t = "object" -> DOMAIN j.v
      [] j.t = "string" -> Range(j.v)
      [] OTHER -> {PyOf(j.v[i]) : i \in DOMAIN j.v}
\* len(x) raises TypeError unless x is sized.
PyLenRaises(j) == j.t \notin {"array", "string", "object"}
\* type(x).__name__ of a decoded JSON value that is sized.
PyType(j) ==
    CASE j.t = "array" -> "list"
      [] j.t = "object" -> "dict"
      [] OTHER -> "str"
\* The Python value of a decoded JSON value where a list is expected: the list,
\* or the JSON value itself standing for the str or dict that was decoded.
PyValue(j) == IF j.t = "array" THEN PyOf(j) ELSE j

\* Variant of LoadBody that forgets the seen_place_ids of the file.
LoadBody_NoPlaceIds(file) ==
    IF file.kind \in {"unreadable", "torn"} \/ file.value.t # "object"
    THEN [exc |-> TRUE, val |-> EmptyLedger, leads_type |-> "list"]
    ELSE [exc |-> FALSE,
          val |-> [leads |-> PyValue(JsonGet(file.value, "leads")),
                   seen_place_ids |-> {},
                   seen_domains |-> PySet(JsonGet(file.value, "seen_domains"))],
          leads_type |-> PyType(JsonGet(file.value, "leads"))]

\* The body of load_checkpoint's try block: exc when one of its lines raises.
LoadBody(file) ==
    IF file.kind \in {"unreadable", "torn"}
    THEN [exc |-> TRUE, val |-> EmptyLedger, leads_type |-> "list"]
    ELSE LET data == file.value IN
         IF data.t # "object"
         THEN [exc |-> TRUE, val |-> EmptyLedger, leads_type |-> "list"]
         ELSE LET l == JsonGet(data, "leads")
                  p == JsonGet(data, "seen_place_ids")
                  d == JsonGet(data, "seen_domains")
              IN IF PySetRaises(p) \/ PySetRaises(d) \/ PyLenRaises(l)
                 THEN [exc |-> TRUE, val |-> EmptyLedger, leads_type |-> "list"]
                 ELSE [exc |-> FALSE,
                       val |-> [leads |-> PyValue(l),
                                seen_place_ids |-> PySet(p),
                                seen_domains |-> PySet(d)],
                       leads_type |-> PyType(l)]

\* load_checkpoint: (leads, seen_place_ids, seen_domains), the type of the
\* returned leads, and whether the call raised.
load_checkpoint(file) ==
    IF file.kind = "absent"
    THEN [raised |-> FALSE, val |-> EmptyLedger, leads_type |-> "list"]
    ELSE LET b == LoadBody(file) IN
         IF b.exc THEN [raised |-> FALSE, val |-> EmptyLedger, leads_type |-> "list"]
         ELSE [raised |-> FALSE, val |-> b.val, leads_type |-> b.leads_type]

\* ------------------------------------------------------------------------
\* State
\* ------------------------------------------------------------------------
VARIABLES
    vercel,          \* os.environ.get("VERCEL") is set
    fs,              \* the checkpoint file at each path
    pc,              \* where the process is: idle (not running), loop, g_place,
                     \* o_place, pool, drain, final, export, done
    cfg,             \* the arguments of the run in progress
    leads,           \* the leads sequence
    seen_place_ids,  \* dedup ledger: identity keys
    seen_domains,    \* dedup ledger: website domains
    ni, ci,          \* position of the niche and city loops
    places,          \* the places of the current pass still to iterate
    candidates,      \* harvesting candidates of the current pass
    fut,             \* state of each candidate's future in the worker pool
    runs,            \* runs started so far
    crashes,         \* runs killed so far
    final_saved,     \* this run has written its final checkpoint
    rerun,           \* this run repeats the run that completed just before it
    prev_leads,      \* the leads that run ended with
    ret              \* what the adapter or harvester call under test returned

vars == <<vercel, fs, pc, cfg, leads, seen_place_ids, seen_domains, ni, ci,
          places, candidates, fut, runs, crashes, final_saved, rerun, prev_leads, ret>>

memory == <<leads, seen_place_ids, seen_domains>>
loopvars == <<ni, ci, places, candidates, fut>>
ghosts == <<final_saved, rerun, prev_leads>>

\* A checkpoint an earlier run of CHECKPOINT_INTERVAL - 1 leads has saved.
LegacyLead(i) ==
    [niche |-> "n0", city |-> "c0", place_id |-> ToString(i),
     website_url |-> <<"https://", ToString(i)>>, emails_found |-> "Nill",
     email_source_page |-> "", gmail_addresses |-> ""]

LegacyLeads == [i \in 1..(CHECKPOINT_INTERVAL - 1) |-> LegacyLead(i)]

LegacyCheckpoint ==
    save_checkpoint(LegacyLeads,
                    {LegacyLeads[i].place_id : i \in DOMAIN LegacyLeads},
                    {LeadDomain(LegacyLeads[i]) : i \in DOMAIN LegacyLeads})

NoCfg ==
    [entry |-> "main", source |-> "google", extract_emails |-> FALSE,
     max_leads |-> 0, clear_checkpoint |-> FALSE, work_dir |-> None,
     checkpoint_file |-> None]

Budgets == {BudgetSmall, CHECKPOINT_INTERVAL + BudgetSmall}

Init ==
    /\ vercel \in BOOLEAN
    /\ \E f0 \in {FileAbsent, LegacyCheckpoint} :
          fs = [p \in Paths |->
                   IF p = _writable_checkpoint_path(None, vercel) THEN f0 ELSE FileAbsent]
    /\ pc = "idle"
    /\ cfg = NoCfg
    /\ leads = <<>>
    /\ seen_place_ids = {}
    /\ seen_domains = {}
    /\ ni = 1
    /\ ci = 1
    /\ places = <<>>
    /\ candidates = <<>>
    /\ fut = <<>>
    /\ runs = 0
    /\ crashes = 0
    /\ final_saved = FALSE
    /\ rerun = FALSE
    /\ prev_leads = <<>>
    /\ ret = None

\* The path every save of the run in progress writes: args.checkpoint_file resolved.
CkptPath == _writable_checkpoint_path(cfg.checkpoint_file, vercel)

\* if flag and path.exists(): path.unlink()
Unlink(files, flag, path) ==
    IF flag /\ files[path].kind # "absent" THEN [files EXCEPT ![path] = FileAbsent] ELSE files

\* The same arguments as the run before, clear-checkpoint flag apart.
SameRun(a, b) ==
    /\ a.entry = b.entry
    /\ a.source = b.source
    /\ a.extract_emails = b.extract_emails
    /\ a.max_leads = b.max_leads
    /\ a.work_dir = b.work_dir

\* What every start of a run sets, given its arguments and the files after the clear.
Started(args, files) ==
    LET loaded == load_checkpoint(
                      files[_writable_checkpoint_path(args.checkpoint_file, vercel)]).val
    IN /\ fs' = files
       /\ cfg' = args
       /\ leads' = loaded.leads
       /\ seen_place_ids' = loaded.seen_place_ids
       /\ seen_domains' = loaded.seen_domains
       /\ ni' = 1
       /\ ci' = 1
       /\ places' = <<>>
       /\ candidates' = <<>>
       /\ fut' = <<>>
       /\ runs' = runs + 1
       /\ final_saved' = FALSE
       /\ rerun' = (pc = "done" /\ SameRun(args, cfg) /\ ~args.clear_checkpoint)
       /\ prev_leads' = IF rerun' THEN leads ELSE <<>>
       /\ UNCHANGED <<ret, vercel, crashes>>

\* main(): clear, load, and the early exit when the checkpoint is at or over budget.
MainStart(source, extract_emails, max_leads, clear_checkpoint) ==
    /\ pc \in {"idle", "done"}
    /\ runs < MaxRuns
    /\ LET args == [entry |-> "main", source |-> source,
                    extract_emails |-> extract_emails, max_leads |-> max_leads,
                    clear_checkpoint |-> clear_checkpoint, work_dir |-> None,
                    checkpoint_file |-> None]
           files == Unlink(fs, clear_checkpoint, DefaultPath)
       IN /\ Started(args, files)
          /\ pc' = IF Len(leads') >= max_leads THEN "export" ELSE "loop"

\* run_collection(): paths, clear, load; its early exit needs an empty niche or
\* city list, which it has refused before.
RunCollectionStart(source, extract_emails, max_leads, clear_checkpoint, work_dir) ==
    /\ pc \in {"idle", "done"}
    /\ runs < MaxRuns
    /\ LET wd == IF work_dir = None /\ vercel THEN "/tmp" ELSE work_dir
           checkpoint_file == CASE wd = None -> None
                                [] wd = "/tmp" -> TmpPath
                                [] OTHER -> WorkPath
           args == [entry |-> "run_collection", source |-> source,
                    extract_emails |-> extract_emails, max_leads |-> max_leads,
                    clear_checkpoint |-> clear_checkpoint, work_dir |-> work_dir,
                    checkpoint_file |-> checkpoint_file]
           files == Unlink(fs, clear_checkpoint,
                           _writable_checkpoint_path(checkpoint_file, vercel))
       IN /\ Started(args, files)
          /\ pc' = IF Len(leads') >= max_leads /\ ~(Niches # <<>> /\ Cities # <<>>)
                   THEN "export" ELSE "loop"

\* ------------------------------------------------------------------------
\* The niche x city loops
\* ------------------------------------------------------------------------
BudgetReached == Len(leads) >= cfg.max_leads

\* Both loops have broken or ended.
LoopExit ==
    /\ pc = "loop"
    /\ BudgetReached \/ ni > Len(Niches)
    /\ pc' = "final"
    /\ UNCHANGED <<ret, vercel, fs, cfg, memory, loopvars, runs, crashes, ghosts>>

\* Variant of Fetch without the budget test at the head of the two loops.
Fetch_NoBudgetTest ==
    /\ pc = "loop"
    /\ ni <= Len(Niches)
    /\ \/ /\ cfg.source = "google"
          /\ places' = collect_places_for_niche_city(Niches[ni], Cities[ci])
          /\ pc' = "g_place"
       \/ /\ cfg.source = "osm"
          /\ places' = collect_osm_places_for_niche_city(Niches[ni], Cities[ci])
          /\ pc' = "o_place"
    /\ candidates' = <<>>
    /\ UNCHANGED <<ret, vercel, fs, cfg, memory, ni, ci, fut, runs, crashes, ghosts>>

\* The place source adapter call of the pair at hand.
Fetch ==
    /\ pc = "loop"
    /\ ~BudgetReached
    /\ ni <= Len(Niches)
    /\ \/ /\ cfg.source = "google"
          /\ places' = collect_places_for_niche_city(Niches[ni], Cities[ci])
          /\ pc' = "g_place"
       \/ /\ cfg.source = "osm"
          /\ places' = collect_osm_places_for_niche_city(Niches[ni], Cities[ci])
          /\ pc' = "o_place"
    /\ candidates' = <<>>
    /\ UNCHANGED <<ret, vercel, fs, cfg, memory, ni, ci, fut, runs, crashes, ghosts>>

\* The next pair: the city loop inside the niche loop.
NextPair ==
    /\ ni' = IF ci < Len(Cities) THEN ni ELSE ni + 1
    /\ ci' = IF ci < Len(Cities) THEN ci + 1 ELSE 1

\* if len(leads) % CHECKPOINT_INTERVAL == 0: save_checkpoint(...)
PeriodicSave(leads_, place_ids, domains) ==
    IF Len(leads_) % CHECKPOINT_INTERVAL = 0
    THEN fs' = [fs EXCEPT ![CkptPath] = save_checkpoint(leads_, place_ids, domains)]
    ELSE fs' = fs

\* ------------------------------------------------------------------------
\* _run_google: one iteration of "for place in places"
\* ------------------------------------------------------------------------
\* Variant of GoogleRejects that looks at the place_id only.
GoogleRejects_IdOnly(place) == place.place_id \in seen_place_ids

GoogleRejects(place) ==
    \/ place.place_id \in seen_place_ids
    \/ get_domain_for_dedup(place.website) \in seen_domains

GoogleSkip ==
    /\ pc = "g_place"
    /\ places # <<>>
    /\ GoogleRejects(Head(places))
    /\ places' = Tail(places)
    /\ UNCHANGED <<ret, vercel, fs, pc, cfg, memory, ni, ci, candidates, fut, runs,
                   crashes, ghosts>>

\* Variant of GoogleLead that harvests whatever the extract_emails flag says.
GoogleLead_AlwaysHarvest(place) ==
    IF place.website # <<>>
    THEN _process_place_emails(place, Niches[ni], Cities[ci])
    ELSE place_to_lead(place, Niches[ni], Cities[ci])

\* The lead _run_google builds for an admitted place.
GoogleLead(place) ==
    IF cfg.extract_emails /\ place.website # <<>>
    THEN _process_place_emails(place, Niches[ni], Cities[ci])
    ELSE place_to_lead(place, Niches[ni], Cities[ci])

GoogleAdmit ==
    /\ pc = "g_place"
    /\ places # <<>>
    /\ ~GoogleRejects(Head(places))
    /\ LET place == Head(places) IN
       /\ seen_place_ids' = seen_place_ids \cup {place.place_id}
       /\ seen_domains' = seen_domains \cup {get_domain_for_dedup(place.website)}
       /\ leads' = Append(leads, GoogleLead(place))
    /\ PeriodicSave(leads', seen_place_ids', seen_domains')
    /\ places' = IF Len(leads') >= cfg.max_leads THEN <<>> ELSE Tail(places)
    /\ UNCHANGED <<ret, vercel, pc, cfg, ni, ci, candidates, fut, runs, crashes, ghosts>>

GooglePassEnd ==
    /\ pc = "g_place"
    /\ places = <<>>
    /\ NextPair
    /\ pc' = "loop"
    /\ UNCHANGED <<ret, vercel, fs, cfg, memory, places, candidates, fut, runs, crashes,
                   ghosts>>

\* ------------------------------------------------------------------------
\* _run_osm: the admission loop, then the worker pool
\* ------------------------------------------------------------------------
OsmDomain(place) ==
    IF place.website # <<>> THEN get_domain_for_dedup(place.website) ELSE <<>>

\* Variant of OsmRejects that looks at the domain only.
OsmRejects_DomainOnly(place) ==
    OsmDomain(place) # <<>> /\ OsmDomain(place) \in seen_domains

OsmRejects(place) ==
    \/ place.place_id \in seen_place_ids
    \/ (OsmDomain(place) # <<>> /\ OsmDomain(place) \in seen_domains)

OsmSkip ==
    /\ pc = "o_place"
    /\ places # <<>>
    /\ OsmRejects(Head(places))
    /\ places' = Tail(places)
    /\ UNCHANGED <<ret, vercel, fs, pc, cfg, memory, ni, ci, candidates, fut, runs,
                   crashes, ghosts>>

OsmAdmit ==
    /\ pc = "o_place"
    /\ places # <<>>
    /\ ~OsmRejects(Head(places))
    /\ LET place == Head(places) IN
       /\ seen_place_ids' = seen_place_ids \cup {place.place_id}
       /\ seen_domains' = IF OsmDomain(place) # <<>>
                          THEN seen_domains \cup {OsmDomain(place)}
                          ELSE seen_domains
       /\ \/ /\ cfg.extract_emails /\ place.website # <<>>
             /\ candidates' = Append(candidates, place)
             /\ leads' = leads
          \/ /\ ~(cfg.extract_emails /\ place.website # <<>>)
             /\ leads' = Append(leads, place_to_lead(place, Niches[ni], Cities[ci]))
             /\ candidates' = candidates
    /\ places' = IF Len(leads') >= cfg.max_leads THEN <<>> ELSE Tail(places)
    /\ UNCHANGED <<ret, vercel, fs, pc, cfg, ni, ci, fut, runs, crashes, ghosts>>

\* if not candidates: the checkpoint test of the pass, then continue.
OsmNoCandidates ==
    /\ pc = "o_place"
    /\ places = <<>>
    /\ candidates = <<>>
    /\ PeriodicSave(leads, seen_place_ids, seen_domains)
    /\ NextPair
    /\ pc' = "loop"
    /\ UNCHANGED <<ret, vercel, cfg, memory, places, candidates, fut, runs, crashes, ghosts>>

\* executor.submit for every candidate.
OsmDispatch ==
    /\ pc = "o_place"
    /\ places = <<>>
    /\ candidates # <<>>
    /\ fut' = [i \in DOMAIN candidates |-> "queued"]
    /\ pc' = "pool"
    /\ UNCHANGED <<ret, vercel, fs, cfg, memory, ni, ci, places, candidates, runs, crashes,
                   ghosts>>

Running == {i \in DOMAIN fut : fut[i] = "running"}
Queued == {i \in DOMAIN fut : fut[i] = "queued"}

\* getattr(args, "email_workers", CONCURRENT_EMAIL_WORKERS): neither entry point sets it.
workers == CONCURRENT_EMAIL_WORKERS

\* Variant of WorkerStart for an executor without max_workers: every submitted
\* work item gets a thread at once.
WorkerStart_Unbounded(i) ==
    /\ pc \in {"pool", "drain"}
    /\ i \in Queued
    /\ \A j \in Queued : i <= j
    /\ fut' = [fut EXCEPT ![i] = "running"]
    /\ UNCHANGED <<ret, vercel, fs, pc, cfg, memory, ni, ci, places, candidates, runs,
                   crashes, ghosts>>

\* A pool thread takes the oldest queued work item.
WorkerStart(i) ==
    /\ pc \in {"pool", "drain"}
    /\ i \in Queued
    /\ \A j \in Queued : i <= j
    /\ Cardinality(Running) < workers
    /\ fut' = [fut EXCEPT ![i] = "running"]
    /\ UNCHANGED <<ret, vercel, fs, pc, cfg, memory, ni, ci, places, candidates, runs,
                   crashes, ghosts>>

\* Variant of WorkerFinish in which the worker appends the lead it built to the
\* shared leads list itself.
WorkerFinish_Appends(i) ==
    /\ pc \in {"pool", "drain"}
    /\ i \in Running
    /\ fut' = [fut EXCEPT ![i] = "done"]
    /\ leads' = Append(leads, _process_place_emails(candidates[i], Niches[ni], Cities[ci]))
    /\ UNCHANGED <<ret, vercel, fs, pc, cfg, seen_place_ids, seen_domains, ni, ci, places,
                   candidates, runs, crashes, ghosts>>

\* _process_place_emails returns in a worker.
WorkerFinish(i) ==
    /\ pc \in {"pool", "drain"}
    /\ i \in Running
    /\ fut' = [fut EXCEPT ![i] = "done"]
    /\ UNCHANGED <<ret, vercel, fs, pc, cfg, memory, ni, ci, places, candidates, runs,
                   crashes, ghosts>>

\* Variant of Collect in which the exception of a failed harvest reaches
\* future.result(): the candidate is logged as a worker error and dropped.
Collect_DropFailed(i) ==
    /\ pc = "pool"
    /\ i \in DOMAIN fut
    /\ fut[i] = "done"
    /\ ~BudgetReached
    /\ leads' = IF extract_emails_from_website(candidates[i].website).raised
                THEN leads
                ELSE Append(leads, _process_place_emails(candidates[i], Niches[ni], Cities[ci]))
    /\ fut' = [fut EXCEPT ![i] = "taken"]
    /\ PeriodicSave(leads', seen_place_ids, seen_domains)
    /\ UNCHANGED <<ret, vercel, pc, cfg, seen_place_ids, seen_domains, ni, ci, places,
                   candidates, runs, crashes, ghosts>>

\* as_completed yields a finished future under budget: append, checkpoint test.
Collect(i) ==
    /\ pc = "pool"
    /\ i \in DOMAIN fut
    /\ fut[i] = "done"
    /\ ~BudgetReached
    /\ leads' = Append(leads, _process_place_emails(candidates[i], Niches[ni], Cities[ci]))
    /\ fut' = [fut EXCEPT ![i] = "taken"]
    /\ PeriodicSave(leads', seen_place_ids, seen_domains)
    /\ UNCHANGED <<ret, vercel, pc, cfg, seen_place_ids, seen_domains, ni, ci, places,
                   candidates, runs, crashes, ghosts>>

\* as_completed yields a finished future at budget: break.
PoolBreak ==
    /\ pc = "pool"
    /\ \E i \in DOMAIN fut : fut[i] = "done"
    /\ BudgetReached
    /\ pc' = "drain"
    /\ UNCHANGED <<ret, vercel, fs, cfg, memory, loopvars, runs, crashes, ghosts>>

\* Variant of PoolExit in which the budget break leaves the with block without
\* waiting for the tasks that have not finished.
PoolExit_NoWait ==
    /\ \/ pc = "pool" /\ \A i \in DOMAIN fut : fut[i] = "taken"
       \/ pc = "drain"
    /\ NextPair
    /\ candidates' = <<>>
    /\ fut' = <<>>
    /\ pc' = "loop"
    /\ UNCHANGED <<ret, vercel, fs, cfg, memory, places, runs, crashes, ghosts>>

\* The with block ends once every future has finished; then the next pair.
PoolExit ==
    /\ \/ pc = "pool" /\ \A i \in DOMAIN fut : fut[i] = "taken"
       \/ pc = "drain" /\ \A i \in DOMAIN fut : fut[i] \in {"done", "taken"}
    /\ NextPair
    /\ candidates' = <<>>
    /\ fut' = <<>>
    /\ pc' = "loop"
    /\ UNCHANGED <<ret, vercel, fs, cfg, memory, places, runs, crashes, ghosts>>

\* ------------------------------------------------------------------------
\* The end of a run
\* ------------------------------------------------------------------------
\* Variant of FinalSave that reaches the export without writing the checkpoint.
FinalSave_Skip ==
    /\ pc = "final"
    /\ fs' = fs
    /\ final_saved' = TRUE
    /\ pc' = "export"
    /\ UNCHANGED <<ret, vercel, cfg, memory, loopvars, runs, crashes, rerun, prev_leads>>

\* save_checkpoint(leads, seen_place_ids, seen_domains, args.checkpoint_file)
FinalSave ==
    /\ pc = "final"
    /\ fs' = [fs EXCEPT ![CkptPath] = save_checkpoint(leads, seen_place_ids, seen_domains)]
    /\ final_saved' = TRUE
    /\ pc' = "export"
    /\ UNCHANGED <<ret, vercel, cfg, memory, loopvars, runs, crashes, rerun, prev_leads>>

\* export_csv(leads, output) and the return.
Export ==
    /\ pc = "export"
    /\ pc' = "done"
    /\ UNCHANGED <<ret, vercel, fs, cfg, memory, loopvars, runs, crashes, ghosts>>

\* ------------------------------------------------------------------------
\* The process is killed
\* ------------------------------------------------------------------------
Killed ==
    /\ pc' = "idle"
    /\ cfg' = NoCfg
    /\ leads' = <<>>
    /\ seen_place_ids' = {}
    /\ seen_domains' = {}
    /\ ni' = 1
    /\ ci' = 1
    /\ places' = <<>>
    /\ candidates' = <<>>
    /\ fut' = <<>>
    /\ crashes' = crashes + 1
    /\ final_saved' = FALSE
    /\ rerun' = FALSE
    /\ prev_leads' = <<>>
    /\ UNCHANGED <<ret, vercel, runs>>

\* Killed between two steps: the files stay as they are.
Crash ==
    /\ pc \notin {"idle", "done"}
    /\ crashes < MaxCrashes
    /\ Killed
    /\ fs' = fs

\* The step the control thread takes next writes the checkpoint.
SaveNext ==
    \/ pc = "final"
    \/ /\ ENABLED GoogleAdmit
       /\ (Len(leads) + 1) % CHECKPOINT_INTERVAL = 0
    \/ /\ ENABLED OsmNoCandidates
       /\ Len(leads) % CHECKPOINT_INTERVAL = 0
    \/ /\ \E i \in DOMAIN fut : ENABLED Collect(i)
       /\ (Len(leads) + 1) % CHECKPOINT_INTERVAL = 0

\* Killed inside save_checkpoint: open(cf, "w") has truncated the file and
\* json.dump has not written all of the text.
CrashInSave ==
    /\ SaveNext
    /\ crashes < MaxCrashes
    /\ Killed
    /\ fs' = [fs EXCEPT ![CkptPath] = FileTorn]

Next ==
    \/ \E source \in {"google", "osm"}, extract_emails \in BOOLEAN,
          max_leads \in Budgets, clear_checkpoint \in BOOLEAN :
          \/ MainStart(source, extract_emails, max_leads, clear_checkpoint)
          \/ \E work_dir \in {None, "work"} :
                RunCollectionStart(source, extract_emails, max_leads,
                                   clear_checkpoint, work_dir)
    \/ LoopExit
    \/ Fetch
    \/ GoogleSkip
    \/ GoogleAdmit
    \/ GooglePassEnd
    \/ OsmSkip
    \/ OsmAdmit
    \/ OsmNoCandidates
    \/ OsmDispatch
    \/ \E i \in DOMAIN fut : WorkerStart(i) \/ WorkerFinish(i) \/ Collect(i)
    \/ PoolBreak
    \/ PoolExit
    \/ FinalSave
    \/ Export
    \/ Crash
    \/ CrashInSave

Spec == Init /\ [][Next]_vars

\* ------------------------------------------------------------------------
\* The checkpoint store on its own: save_checkpoint and load_checkpoint called
\* with arguments and files drawn from bounded sets.
\* ------------------------------------------------------------------------
CkptLeads == {place_to_lead(pA, "n1", "c1"), _process_place_emails(pC, "n1", "c2")}
CkptIds == {"p1", "p3"}
CkptDomains == {get_domain_for_dedup(pA.website), get_domain_for_dedup(pE.website)}

\* The lists of at most MaxLen leads.
CkptLeadLists == UNION {[1..n -> CkptLeads] : n \in 0..MaxLen}

CkptKeys == {"leads", "seen_place_ids", "seen_domains"}

\* What a checkpoint file may hold under a key: the value save_checkpoint
\* writes there, or a value of another type.
CkptValues(key) ==
    {IF key = "leads" THEN JsonLeads(<<place_to_lead(pA, "n1", "c1")>>)
     ELSE IF key = "seen_place_ids" THEN JsonStrings({"p1"})
     ELSE JsonStrings({get_domain_for_dedup(pA.website)}),
     JString(<<"a", "b">>), JNull, JObject([a |-> JNull])}

\* The JSON objects with any of the three keys, one of them with a key that
\* load_checkpoint does not know.
CkptObjects ==
    {JObject([k \in K |-> [leads |-> l, seen_place_ids |-> p, seen_domains |-> d][k]]) :
        l \in CkptValues("leads"), p \in CkptValues("seen_place_ids"),
        d \in CkptValues("seen_domains"), K \in SUBSET CkptKeys}
    \cup {JObject([leads |-> JsonLeads(<<place_to_lead(pA, "n1", "c1")>>),
                   version |-> JNumber(2)])}

\* The files load_checkpoint may find.
CkptFiles ==
    {FileAbsent, FileUnreadable, FileTorn}
    \cup {FileJson(j) : j \in {JArray(<<>>), JString(<<"a", "b">>), JNull}}
    \cup {FileJson(j) : j \in CkptObjects}

CkptArgs(leads_, place_ids, domains, checkpoint_file) ==
    [entry |-> "checkpoint", leads |-> leads_, seen_place_ids |-> place_ids,
     seen_domains |-> domains, checkpoint_file |-> checkpoint_file]

InitCkpt ==
    /\ vercel \in BOOLEAN
    /\ \E checkpoint_file \in {None, WorkPath}, f0 \in CkptFiles,
          leads_ \in CkptLeadLists, place_ids \in SUBSET CkptIds,
          domains \in SUBSET CkptDomains :
          /\ cfg = CkptArgs(leads_, place_ids, domains, checkpoint_file)
          /\ fs = [p \in Paths |->
                     IF p = _writable_checkpoint_path(checkpoint_file, vercel)
                     THEN f0 ELSE FileAbsent]
    /\ pc = "call"
    /\ leads = <<>>
    /\ seen_place_ids = {}
    /\ seen_domains = {}
    /\ ni = 1
    /\ ci = 1
    /\ places = <<>>
    /\ candidates = <<>>
    /\ fut = <<>>
    /\ runs = 0
    /\ crashes = 0
    /\ final_saved = FALSE
    /\ rerun = FALSE
    /\ prev_leads = <<>>
    /\ ret = None

\* save_checkpoint(leads, seen_place_ids, seen_domains, checkpoint_file)
SaveCall ==
    /\ pc = "call"
    /\ fs' = [fs EXCEPT ![CkptPath] =
                  save_checkpoint(cfg.leads, cfg.seen_place_ids, cfg.seen_domains)]
    /\ pc' = "saved"
    /\ UNCHANGED <<ret, vercel, cfg, memory, loopvars, runs, crashes, ghosts>>

\* leads, seen_place_ids, seen_domains = load_checkpoint(checkpoint_file)
LoadCall ==
    /\ pc \in {"call", "saved"}
    /\ LET loaded == load_checkpoint(fs[CkptPath]).val IN
       /\ leads' = loaded.leads
       /\ seen_place_ids' = loaded.seen_place_ids
       /\ seen_domains' = loaded.seen_domains
    /\ pc' = IF pc = "saved" THEN "reloaded" ELSE "loaded"
    /\ UNCHANGED <<ret, vercel, fs, cfg, loopvars, runs, crashes, ghosts>>

NextCkpt ==
    \/ SaveCall
    \/ LoadCall

SpecCkpt == InitCkpt /\ [][NextCkpt]_vars

\* ------------------------------------------------------------------------
\* Properties
\* ------------------------------------------------------------------------
LeadIds(ls) == {ls[i].place_id : i \in DOMAIN ls}
\* The positions of ls whose website has a non-empty dedup domain.
WithDomain(ls) == {i \in DOMAIN ls : LeadDomain(ls[i]) # <<>>}
LeadDomains(ls) == {LeadDomain(ls[i]) : i \in WithDomain(ls)}

\* A run has reached the point where it hands its leads to export_csv.
AtExport == pc \in {"export", "done"}

\* C1: for every run, the number of leads handed to the exporter at the end of
\* the run never exceeds the requested budget max_leads.
C1_BudgetEnforced == AtExport => Len(leads) <= cfg.max_leads

\* C2: in every reachable state, across passes, checkpoint saves, crashes and
\* resumes, no two leads of the leads sequence have the same place_id.
C2_UniquePlaceIds == Cardinality(LeadIds(leads)) = Len(leads)

\* C2 witness: a resumed run is offered a place whose place_id a lead loaded
\* from the checkpoint already holds.
C2_Witness ==
    /\ runs = 2
    /\ pc \in {"g_place", "o_place"}
    /\ places # <<>>
    /\ Head(places).place_id \in LeadIds(leads)
    /\ Head(places).place_id \in seen_place_ids

\* C3: in every reachable state, no two leads of the leads sequence have
\* websites with the same non-empty dedup domain.
C3_UniqueDomains == Cardinality(LeadDomains(leads)) = Cardinality(WithDomain(leads))

\* C3 witness: a place with a new place_id is offered whose non-empty dedup
\* domain a lead already holds.
C3_Witness ==
    /\ pc \in {"g_place", "o_place"}
    /\ places # <<>>
    /\ Head(places).place_id \notin seen_place_ids
    /\ get_domain_for_dedup(Head(places).website) # <<>>
    /\ get_domain_for_dedup(Head(places).website) \in LeadDomains(leads)

\* C4: when a completed run is started again with the same arguments, without
\* clearing the checkpoint and with the upstream unchanged, the second run
\* appends no lead: its leads sequence stays the one the first run ended with.
C4_IdempotentResume == rerun => leads = prev_leads

\* C4 witness: the second run has finished below its budget, so it has fetched
\* and judged every place again.
C4_Witness ==
    /\ rerun
    /\ pc = "done"
    /\ leads # <<>>
    /\ Len(leads) < cfg.max_leads

\* Every lead of lds has its place_id in ids.
IdsRecorded(lds, ids) == \A i \in DOMAIN lds : lds[i].place_id \in ids
\* Every lead of lds that has a website has that website's dedup domain in doms.
WebsiteDomainsRecorded(lds, doms) ==
    \A i \in DOMAIN lds : lds[i].website_url # Nill => LeadDomain(lds[i]) \in doms
\* Every lead of lds whose website has a non-empty dedup domain has it in doms.
DomainsRecorded(lds, doms) ==
    \A i \in DOMAIN lds : LeadDomain(lds[i]) # <<>> => LeadDomain(lds[i]) \in doms

\* A step of a run: from after the load up to the return, the process alive.
RunStep == pc \notin {"idle", "done"} /\ pc' # "idle"

\* C5 as stated: in every reachable state of a run every lead has its place_id
\* in seen_place_ids and, if it has a website, its dedup domain in seen_domains.
C5_LedgerCoversWebsites ==
    /\ IdsRecorded(leads, seen_place_ids)
    /\ WebsiteDomainsRecorded(leads, seen_domains)

\* C5 amended: in every reachable state of a run, also right after the load,
\* every lead has its place_id in seen_place_ids and, if its website has a
\* non-empty dedup domain, that domain in seen_domains; and seen_place_ids and
\* seen_domains only grow during a run.
C5_LedgerCoversLeads ==
    /\ [](IdsRecorded(leads, seen_place_ids) /\ DomainsRecorded(leads, seen_domains))
    /\ [][RunStep => /\ seen_place_ids \subseteq seen_place_ids'
                     /\ seen_domains \subseteq seen_domains']_vars

\* C5 witness: a run that loaded leads from the checkpoint has admitted a
\* further place and holds its lead.
C5_Witness ==
    /\ pc \in {"g_place", "o_place", "pool"}
    /\ \E i \in DOMAIN leads : leads[i].niche = "n0"
    /\ \E i \in DOMAIN leads : leads[i].niche # "n0" /\ LeadDomain(leads[i]) # <<>>

\* What load_checkpoint returns from the file at path p.
Loaded(p) == load_checkpoint(fs[p]).val

\* C6 as stated: whenever the process may stop, what load_checkpoint returns
\* from the file on disk has every lead's place_id in the returned
\* seen_place_ids and every lead's website domain in the returned seen_domains.
C6_SnapshotCoversWebsites ==
    \A p \in Paths :
        /\ IdsRecorded(Loaded(p).leads, Loaded(p).seen_place_ids)
        /\ WebsiteDomainsRecorded(Loaded(p).leads, Loaded(p).seen_domains)

\* C6 amended: whenever the process may stop (between a periodic save and the
\* end of a batch, and inside a save), what load_checkpoint returns from the
\* file on disk has every lead's place_id in the returned seen_place_ids and
\* every lead's non-empty website domain in the returned seen_domains.
C6_SnapshotConsistent ==
    \A p \in Paths :
        /\ IdsRecorded(Loaded(p).leads, Loaded(p).seen_place_ids)
        /\ DomainsRecorded(Loaded(p).leads, Loaded(p).seen_domains)

\* C6 witness: a harvesting batch is under way after a periodic save wrote a
\* checkpoint holding a lead of this batch.
C6_Witness ==
    /\ pc = "pool"
    /\ \E i \in DOMAIN fut : fut[i] # "taken"
    /\ Len(Loaded(CkptPath).leads) = CHECKPOINT_INTERVAL
    /\ Loaded(CkptPath).leads = leads

\* C9: every time an append makes the lead count a multiple of
\* CHECKPOINT_INTERVAL, a checkpoint holding that lead is on disk before the
\* next lead is appended, on the harvesting and on the no-harvesting path.
C9_PeriodicCheckpoint ==
    [][(/\ RunStep
        /\ Len(leads') = Len(leads) + 1
        /\ leads # <<>>
        /\ Len(leads) % CHECKPOINT_INTERVAL = 0)
       => Loaded(CkptPath).leads = leads]_vars

C7_RoundTrip ==
    pc = "reloaded" =>
        /\ leads = cfg.leads
        /\ seen_place_ids = cfg.seen_place_ids
        /\ seen_domains = cfg.seen_domains

\* C7 witness: a list of two different leads and two non-empty sets have been
\* saved and loaded again.
C7_Witness ==
    /\ pc = "reloaded"
    /\ Len(cfg.leads) = 2
    /\ cfg.leads[1] # cfg.leads[2]
    /\ Cardinality(cfg.seen_place_ids) = 2
    /\ cfg.seen_domains # {}

\* C8 as stated: load_checkpoint never raises; it returns (empty list, empty
\* set, empty set) when the file is absent, unreadable or corrupt; when the
\* file is a JSON object with a key missing it returns an empty list or empty
\* set for that key; what it returns is always a list of leads and two sets.
C8_LoadTotal ==
    pc = "loaded" =>
        LET file == fs[CkptPath]
            out == load_checkpoint(file)
        IN  /\ ~out.raised
            /\ out.leads_type = "list"
            /\ (file.kind # "json" \/ file.value.t # "object") =>
                   /\ leads = <<>>
                   /\ seen_place_ids = {}
                   /\ seen_domains = {}
            /\ (file.kind = "json" /\ file.value.t = "object") =>
                   /\ "leads" \notin DOMAIN file.value.v => leads = <<>>
                   /\ "seen_place_ids" \notin DOMAIN file.value.v => seen_place_ids = {}
                   /\ "seen_domains" \notin DOMAIN file.value.v => seen_domains = {}

\* C11: when a run is started with the clear-checkpoint flag set, the checkpoint
\* file the run loads has been deleted before the load, so the run starts with
\* an empty leads sequence and empty ledger sets, whatever path is in effect.
C11_ClearStartsEmpty ==
    [][(pc \in {"idle", "done"} /\ pc' \notin {"idle", "done"} /\ cfg'.clear_checkpoint)
       => (leads' = <<>> /\ seen_place_ids' = {} /\ seen_domains' = {})]_vars

\* A step of an admission loop that examines the place at the head of places.
Examines ==
    /\ pc \in {"g_place", "o_place"}
    /\ pc' = pc
    /\ places # <<>>
    /\ places' # places

\* The step recorded the identity key of the place it examined.
Admitted ==
    /\ Head(places).place_id \notin seen_place_ids
    /\ Head(places).place_id \in seen_place_ids'

\* The admit rule of the specification for the place at the head of places.
AdmitRule ==
    LET domain == get_domain_for_dedup(Head(places).website) IN
    /\ Head(places).place_id \notin seen_place_ids
    /\ (domain = <<>> \/ domain \notin seen_domains)

\* C20: in both orchestrators a fetched place is admitted, its identity key and
\* domain recorded, if and only if its place_id is not in seen_place_ids and its
\* dedup domain is empty or not in seen_domains; two distinct places with an
\* empty dedup domain are both admitted.
C20_AdmitRule == [][Examines => (Admitted <=> AdmitRule)]_vars

\* The harvest of this place is attempted and raises.
HarvestFails(place) ==
    /\ cfg.extract_emails
    /\ place.website # <<>>
    /\ extract_emails_from_website(place.website).raised

\* The step appended exactly one lead, the lead of this place with the email
\* fields place_to_lead gave it.
AppendsDefaultLead(place) ==
    /\ Len(leads') = Len(leads) + 1
    /\ SubSeq(leads', 1, Len(leads)) = leads
    /\ LET lead == leads'[Len(leads')] IN
       /\ lead.place_id = place.place_id
       /\ lead.emails_found = "Nill"
       /\ lead.email_source_page = ""
       /\ lead.gmail_addresses = ""

\* C13: when the harvest of an admitted candidate raises, the candidate's lead
\* is still appended with emails_found "Nill" and empty email_source_page and
\* gmail_addresses: in _run_google by the step that admits the place, in
\* _run_osm by the step that takes the candidate's future, and the pool is
\* left under budget only when every such future has been taken.
C13_FailedHarvestKeepsLead ==
    [][/\ (Examines /\ pc = "g_place" /\ Admitted /\ HarvestFails(Head(places)))
            => AppendsDefaultLead(Head(places))
       /\ \A i \in DOMAIN fut :
            (pc = "pool" /\ pc' = "pool" /\ fut[i] = "done" /\ fut'[i] = "taken"
               /\ HarvestFails(candidates[i]))
            => AppendsDefaultLead(candidates[i])
       /\ (pc \in {"pool", "drain"} /\ pc' = "loop" /\ ~BudgetReached)
            => \A i \in DOMAIN fut : HarvestFails(candidates[i]) => fut[i] = "taken"
      ]_vars

\* A run that harvests has collected, through the worker pool, the lead of the
\* place whose harvest raises.
C13_Witness ==
    /\ cfg.source = "osm"
    /\ cfg.extract_emails
    /\ pc = "loop"
    /\ \E i \in DOMAIN leads :
         /\ leads[i].place_id = pF.place_id
         /\ leads[i].emails_found = "Nill"
         /\ leads[i].gmail_addresses = ""

\* A step taken by a pool thread: a future starts running or finishes.
WorkerStep ==
    /\ pc \in {"pool", "drain"}
    /\ pc' = pc
    /\ \E i \in DOMAIN fut :
         \/ fut[i] = "queued" /\ fut'[i] = "running"
         \/ fut[i] = "running" /\ fut'[i] = "done"

\* The number of leads that carry the place_id of candidate i.
AppendsOf(i) == Cardinality({k \in DOMAIN leads : leads[k].place_id = candidates[i].place_id})

\* C18: the leads sequence, seen_place_ids and seen_domains are read and written
\* by the control thread only: no step of a worker changes them (or the
\* checkpoint file), and under every interleaving the lead of a candidate is in
\* leads exactly once when the control thread has taken its future and not at
\* all before.
C18_SingleWriter ==
    /\ [][WorkerStep => UNCHANGED <<leads, seen_place_ids, seen_domains, fs>>]_vars
    /\ [](pc \in {"pool", "drain"} =>
            \A i \in DOMAIN fut : AppendsOf(i) = IF fut[i] = "taken" THEN 1 ELSE 0)

\* Two workers are running while the control thread has already taken the
\* result of a third.
C18_Witness ==
    /\ pc = "pool"
    /\ Cardinality(Running) >= 2
    /\ \E i \in DOMAIN fut : fut[i] = "taken"

\* ------------------------------------------------------------------------
\* The worker pool of _run_osm on a batch larger than the pool
\* ------------------------------------------------------------------------
\* The candidates of a pass in which the admission loop admitted MaxBatch places.
Batch == [i \in 1..MaxBatch |-> BatchPlace(i)]

\* Right after executor.submit for every candidate of the first pair, in a
\* fresh run with one lead left in its budget.
InitPool ==
    /\ vercel = FALSE
    /\ fs = [p \in Paths |-> FileAbsent]
    /\ pc = "pool"
    /\ cfg = [NoCfg EXCEPT !.entry = "run_collection", !.source = "osm",
                           !.extract_emails = TRUE, !.max_leads = 1]
    /\ leads = <<>>
    /\ seen_place_ids = {Batch[i].place_id : i \in DOMAIN Batch}
    /\ seen_domains = {OsmDomain(Batch[i]) : i \in DOMAIN Batch}
    /\ ni = 1
    /\ ci = 1
    /\ places = <<>>
    /\ candidates = Batch
    /\ fut = [i \in DOMAIN Batch |-> "queued"]
    /\ runs = 1
    /\ crashes = 0
    /\ final_saved = FALSE
    /\ rerun = FALSE
    /\ prev_leads = <<>>
    /\ ret = None

NextPool ==
    \/ \E i \in DOMAIN fut : WorkerStart(i)
    \/ \E i \in DOMAIN fut : WorkerFinish(i)
    \/ \E i \in DOMAIN fut : Collect(i)
    \/ PoolBreak
    \/ PoolExit

SpecPool == InitPool /\ [][NextPool]_vars

\* C17: at every moment the number of website harvests executing concurrently
\* is at most the worker count (14 by default), and harvests of two different
\* (niche, city) pairs never run at the same time: harvests run inside the pool
\* of their pair only, and the run moves to the next pair only when no harvest
\* of the batch is running or still queued.
C17_BoundedConcurrency ==
    /\ [](Cardinality(Running) <= workers)
    /\ [](Running # {} => pc \in {"pool", "drain"})
    /\ [][<<ni, ci>>' # <<ni, ci>> => (Running = {} /\ Queued = {})]_vars

\* The pool is full: as many harvests as workers are running and a candidate
\* is waiting for a free worker.
C17_Witness ==
    /\ Cardinality(Running) = workers
    /\ Queued # {}

\* ------------------------------------------------------------------------
\* extract_emails_from_website alone
\* ------------------------------------------------------------------------
\* The website URLs handed to the harvester.
HarvestUrls ==
    {<<>>, <<"a.de">>, <<"https://", "a.de">>, <<"https://", "a.de", "/">>,
     <<"https://", "WWW.", "A.DE", "/kontakt">>, <<"http://", "a.de", "/impressum">>}

\* The pages a host may serve and the hosts built from them.
HarvestPages == {NoPage, Page(TRUE, <<"info@a.de">>), Page(TRUE, <<"info@a.de", "b@gmail.com">>)}
HarvestSites ==
    {Site(robots, home, contact, broken) :
        robots \in {"allow", "deny", "deny_pages", "error"},
        home \in HarvestPages, contact \in HarvestPages, broken \in BOOLEAN}

InitHarvest ==
    /\ vercel = FALSE
    /\ fs = [p \in Paths |-> FileAbsent]
    /\ pc = "call"
    /\ \E website_url \in HarvestUrls, site \in HarvestSites :
          cfg = [website_url |-> website_url, site |-> site]
    /\ leads = <<>>
    /\ seen_place_ids = {}
    /\ seen_domains = {}
    /\ ni = 1
    /\ ci = 1
    /\ places = <<>>
    /\ candidates = <<>>
    /\ fut = <<>>
    /\ runs = 0
    /\ crashes = 0
    /\ final_saved = FALSE
    /\ rerun = FALSE
    /\ prev_leads = <<>>
    /\ ret = None

\* emails, source = extract_emails_from_website(website_url)
HarvestCall ==
    /\ pc = "call"
    /\ ret' = ExtractEmails(cfg.website_url, cfg.site)
    /\ pc' = "returned"
    /\ UNCHANGED <<vercel, fs, cfg, memory, loopvars, runs, crashes, ghosts>>

NextHarvest == HarvestCall

SpecHarvest == InitHarvest /\ [][NextHarvest]_vars

\* The robots policy of the host was read and disallows the harvester's user
\* agent for the website URL.
RobotsDisallows ==
    /\ cfg.website_url # <<>>
    /\ Head(cfg.website_url) \in SchemeTokens
    /\ cfg.site.robots # "error"
    /\ ~RobotsCanFetch(cfg.site, cfg.website_url)

\* C19: when the robots policy of the target host disallows the harvester's
\* user agent, extract_emails_from_website fetches no page of that host and
\* returns an empty email list with the source hint "robots_blocked".
C19_RobotsCompliance ==
    (pc = "returned" /\ RobotsDisallows) =>
        /\ ~ret.raised
        /\ ret.fetched = <<>>
        /\ ret.emails = <<>>
        /\ ret.source = "robots_blocked"

\* The harvester has returned from a host that disallows it and whose pages
\* hold addresses.
C19_Witness ==
    /\ pc = "returned"
    /\ RobotsDisallows
    /\ cfg.site.home.emails # <<>>
    /\ cfg.site.contact.emails # <<>>
    /\ ret.source = "robots_blocked"

\* ------------------------------------------------------------------------
\* One run in which the place source adapter and the checkpoint write may fail
\* ------------------------------------------------------------------------
\* A single run of either entry point, never killed; ret holds the last
\* exception a callee of the orchestrator raised.
InitFault ==
    /\ vercel \in BOOLEAN
    /\ \E f0 \in {FileAbsent, LegacyCheckpoint} :
          fs = [p \in Paths |->
                   IF p = _writable_checkpoint_path(None, vercel) THEN f0 ELSE FileAbsent]
    /\ pc = "idle"
    /\ cfg = NoCfg
    /\ leads = <<>>
    /\ seen_place_ids = {}
    /\ seen_domains = {}
    /\ ni = 1
    /\ ci = 1
    /\ places = <<>>
    /\ candidates = <<>>
    /\ fut = <<>>
    /\ runs = MaxRuns - 1
    /\ crashes = MaxCrashes
    /\ final_saved = FALSE
    /\ rerun = FALSE
    /\ prev_leads = <<>>
    /\ ret = None

\* Variant of FetchRaises in which the exception of the adapter ends the run.
FetchRaises_Aborts ==
    /\ pc = "loop"
    /\ ~BudgetReached
    /\ ni <= Len(Niches)
    /\ ret' = "adapter_error"
    /\ pc' = "raised"
    /\ UNCHANGED <<vercel, fs, cfg, memory, loopvars, runs, crashes, ghosts>>

\* collect_places_for_niche_city / collect_osm_places_for_niche_city raises:
\* except Exception logs the error and the city loop goes on.
FetchRaises ==
    /\ pc = "loop"
    /\ ~BudgetReached
    /\ ni <= Len(Niches)
    /\ ret' = "adapter_error"
    /\ NextPair
    /\ pc' = "loop"
    /\ UNCHANGED <<vercel, fs, cfg, memory, places, candidates, fut, runs, crashes, ghosts>>

\* save_checkpoint raises: mkdir or open failed and the file is as it was, or
\* json.dump failed after open(cf, "w") truncated the file.
WriteFails ==
    /\ fs' \in {fs, [fs EXCEPT ![CkptPath] = FileTorn]}
    /\ ret' = "write_error"

\* _run_google: the periodic save after an append raises; the except clause of
\* the pair logs it and the city loop goes on.
GoogleAdmitWriteFails ==
    /\ pc = "g_place"
    /\ places # <<>>
    /\ ~GoogleRejects(Head(places))
    /\ LET place == Head(places) IN
       /\ seen_place_ids' = seen_place_ids \cup {place.place_id}
       /\ seen_domains' = seen_domains \cup {get_domain_for_dedup(place.website)}
       /\ leads' = Append(leads, GoogleLead(place))
    /\ Len(leads') % CHECKPOINT_INTERVAL = 0
    /\ WriteFails
    /\ places' = <<>>
    /\ NextPair
    /\ pc' = "loop"
    /\ UNCHANGED <<vercel, cfg, candidates, fut, runs, crashes, ghosts>>

\* _run_osm, if not candidates: the save raises; the except clause of the pair
\* logs it and the city loop goes on.
OsmNoCandidatesWriteFails ==
    /\ pc = "o_place"
    /\ places = <<>>
    /\ candidates = <<>>
    /\ Len(leads) % CHECKPOINT_INTERVAL = 0
    /\ WriteFails
    /\ NextPair
    /\ pc' = "loop"
    /\ UNCHANGED <<vercel, cfg, memory, places, candidates, fut, runs, crashes, ghosts>>

\* _run_osm, as_completed loop: the save after the append raises inside the try
\* around future.result(); it is logged as a worker error and the loop goes on.
CollectWriteFails(i) ==
    /\ pc = "pool"
    /\ i \in DOMAIN fut
    /\ fut[i] = "done"
    /\ ~BudgetReached
    /\ leads' = Append(leads, _process_place_emails(candidates[i], Niches[ni], Cities[ci]))
    /\ Len(leads') % CHECKPOINT_INTERVAL = 0
    /\ fut' = [fut EXCEPT ![i] = "taken"]
    /\ WriteFails
    /\ UNCHANGED <<vercel, pc, cfg, seen_place_ids, seen_domains, ni, ci, places,
                   candidates, runs, crashes, ghosts>>

\* The final save of main / run_collection raises: nothing catches it.
FinalSaveWriteFails ==
    /\ pc = "final"
    /\ WriteFails
    /\ pc' = "raised"
    /\ UNCHANGED <<vercel, cfg, memory, loopvars, runs, crashes, ghosts>>

\* The checkpoint path run_collection resolves from work_dir.
RunCollectionPath(work_dir) ==
    LET wd == IF work_dir = None /\ vercel THEN "/tmp" ELSE work_dir
    IN  _writable_checkpoint_path(CASE wd = None -> None
                                    [] wd = "/tmp" -> TmpPath
                                    [] OTHER -> WorkPath, vercel)

\* Variant of RunCollectionRefuses that tests the lists after the checkpoint
\* has been cleared.
RunCollectionRefuses_AfterClear(niches, cities, clear_checkpoint, work_dir) ==
    /\ pc \in {"idle", "done"}
    /\ runs < MaxRuns
    /\ niches = <<>> \/ cities = <<>>
    /\ fs' = Unlink(fs, clear_checkpoint, RunCollectionPath(work_dir))
    /\ cfg' = [NoCfg EXCEPT !.entry = "run_collection",
                            !.clear_checkpoint = clear_checkpoint,
                            !.work_dir = work_dir]
    /\ ret' = "ValueError"
    /\ pc' = "raised"
    /\ runs' = runs + 1
    /\ UNCHANGED <<vercel, memory, loopvars, crashes, ghosts>>

\* run_collection(niches, cities, ...) with an empty list: the first statement
\* raises ValueError.
RunCollectionRefuses(niches, cities, clear_checkpoint, work_dir) ==
    /\ pc \in {"idle", "done"}
    /\ runs < MaxRuns
    /\ niches = <<>> \/ cities = <<>>
    /\ cfg' = [NoCfg EXCEPT !.entry = "run_collection",
                            !.clear_checkpoint = clear_checkpoint,
                            !.work_dir = work_dir]
    /\ ret' = "ValueError"
    /\ pc' = "raised"
    /\ runs' = runs + 1
    /\ UNCHANGED <<vercel, fs, memory, loopvars, crashes, ghosts>>

NextFault ==
    \/ \E source \in {"google", "osm"}, extract_emails \in BOOLEAN,
          max_leads \in Budgets, clear_checkpoint \in BOOLEAN :
          \/ MainStart(source, extract_emails, max_leads, clear_checkpoint)
          \/ \E work_dir \in {None, "work"} :
                RunCollectionStart(source, extract_emails, max_leads,
                                   clear_checkpoint, work_dir)
    \/ \E niches \in {<<>>, Niches}, cities \in {<<>>, Cities},
          clear_checkpoint \in BOOLEAN, work_dir \in {None, "work"} :
          RunCollectionRefuses(niches, cities, clear_checkpoint, work_dir)
    \/ LoopExit
    \/ Fetch
    \/ FetchRaises
    \/ GoogleSkip
    \/ GoogleAdmit
    \/ GoogleAdmitWriteFails
    \/ GooglePassEnd
    \/ OsmSkip
    \/ OsmAdmit
    \/ OsmNoCandidates
    \/ OsmNoCandidatesWriteFails
    \/ OsmDispatch
    \/ \E i \in DOMAIN fut : WorkerStart(i) \/ WorkerFinish(i) \/ Collect(i)
    \/ \E i \in DOMAIN fut : CollectWriteFails(i)
    \/ PoolBreak
    \/ PoolExit
    \/ FinalSave
    \/ FinalSaveWriteFails
    \/ Export

SpecFault == InitFault /\ [][NextFault]_vars

\* The step at the adapter call of a pair in which the call raises instead of
\* returning places.
AdapterRaises ==
    /\ pc = "loop"
    /\ ~BudgetReached
    /\ ni <= Len(Niches)
    /\ ret' = "adapter_error"
    /\ pc' \notin {"g_place", "o_place"}

\* C12: when the place source adapter call of a pair raises, the leads
\* sequence and the ledger are left as they were, the pair contributes nothing,
\* the orchestrator goes on with the next city or niche, and the run is not
\* aborted: no step taken at the adapter call ends the run with an exception.
C12_AdapterErrorSkipsPair ==
    [][AdapterRaises
          => /\ pc' = "loop"
             /\ UNCHANGED <<leads, seen_place_ids, seen_domains, fs>>
             /\ ni' = (IF ci < Len(Cities) THEN ni ELSE ni + 1)
             /\ ci' = (IF ci < Len(Cities) THEN ci + 1 ELSE 1)]_vars

\* The adapter raised for the first pair and the run went on: it is collecting
\* places of a later pair.
C12_Witness ==
    /\ ret = "adapter_error"
    /\ pc \in {"g_place", "o_place"}
    /\ <<ni, ci>> # <<1, 1>>
    /\ places # <<>>
    /\ leads = <<>>

\* C14: a failed checkpoint write, periodic or final, propagates to the caller
\* of the run: once save_checkpoint has raised the run has ended with that
\* exception and collects no more.
C14_WriteFailurePropagates == ret = "write_error" => pc = "raised"

\* ------------------------------------------------------------------------
\* The commercial adapter (utils/places.py) and the provider it calls
\* ------------------------------------------------------------------------
\* How the provider answers one kind of call: with `rate` rate-limit errors in
\* a row, and after them with a result ("ok") or an error of another kind.
Script(rate, then) == [rate |-> rate, then |-> then]

\* for attempt in range(max_retries): try fn; a rate-limit-like error sleeps
\* base_delay * 2**attempt and tries again, another error is raised at once;
\* after the loop the last error is raised.
RECURSIVE RetryFrom(_, _, _)
RetryFrom(script, attempt, delays) ==
    IF attempt = max_retries
    THEN [raised |-> TRUE, attempts |-> attempt, delays |-> delays]
    ELSE IF attempt < script.rate
    THEN RetryFrom(script, attempt + 1, Append(delays, base_delay * 2^attempt))
    ELSE [raised |-> script.then # "ok", attempts |-> attempt + 1, delays |-> delays]

_call_with_retry(script) == RetryFrom(script, 0, <<>>)

\* A call that was not made.
NoCall == [raised |-> FALSE, attempts |-> 0, delays |-> <<>>]

\* What the provider holds: two pages of text search results, one page of
\* nearby results.
TextPage1 == <<pA, pB>>
TextPage2 == <<pC, pD, pE>>
NearbyPage == <<pF, pA, pB>>

\* text_search_places: pages until there is no next_page_token; an exception
\* of _call_with_retry is logged and the pages read so far are returned.
text_search_places(provider) ==
    LET c1 == _call_with_retry(provider.text1)
        c2 == _call_with_retry(provider.text2)
    IN  IF c1.raised THEN [results |-> <<>>, page1 |-> c1, page2 |-> NoCall]
        ELSE IF c2.raised THEN [results |-> TextPage1, page1 |-> c1, page2 |-> c2]
        ELSE [results |-> TextPage1 \o TextPage2, page1 |-> c1, page2 |-> c2]

\* nearby_search_places: the same loop over places_nearby (one page here).
nearby_search_places(provider) ==
    LET c == _call_with_retry(provider.nearby)
    IN  [results |-> IF c.raised THEN <<>> ELSE NearbyPage, page1 |-> c]

\* geocode_city: the coordinates, or None when _call_with_retry raised.
geocode_city(provider) ==
    LET c == _call_with_retry(provider.geocode)
    IN  [coords |-> ~c.raised, call |-> c]

\* fetch_place_details: client.place is called once, outside _call_with_retry;
\* any exception is logged and the place is None.
fetch_place_details(provider) ==
    [raised |-> provider.details.rate > 0 \/ provider.details.then # "ok",
     attempts |-> 1, delays |-> <<>>]

\* collect_places_for_niche_city against this provider: the places returned,
\* whether the call raised, the provider calls made and how each went.
CollectPlaces(provider) ==
    LET text == text_search_places(provider)
        details == fetch_place_details(provider)
        valid_text == IF details.raised THEN <<>>
                      ELSE GoogleMerge(text.results, {}, {}, <<>>)
        fallback == /\ Len(valid_text) < min_text_results
                    /\ Len(text.results) < min_text_results
        geo == geocode_city(provider)
        nearby == nearby_search_places(provider)
        nearby_raw == IF fallback /\ geo.coords THEN nearby.results ELSE <<>>
        valid_places ==
            IF details.raised THEN <<>>
            ELSE GoogleMerge(nearby_raw,
                             {valid_text[i].place_id : i \in DOMAIN valid_text},
                             {get_domain_for_dedup(valid_text[i].website) : i \in DOMAIN valid_text},
                             valid_text)
    IN  [raised |-> FALSE,
         places |-> valid_places,
         made |-> {"text1"}
                    \cup (IF text.page1.raised THEN {} ELSE {"text2"})
                    \cup (IF text.results \o nearby_raw # <<>> THEN {"details"} ELSE {})
                    \cup (IF fallback THEN {"geocode"} ELSE {})
                    \cup (IF fallback /\ geo.coords THEN {"nearby"} ELSE {}),
         calls |-> [text1 |-> text.page1, text2 |-> text.page2, details |-> details,
                    geocode |-> geo.call, nearby |-> nearby.page1]]

Scripts ==
    {Script(rate, then) : rate \in {0, 1, max_retries - 1, MaxRateLimited},
                          then \in {"ok", "error"}}

InitAdapter ==
    /\ vercel = FALSE
    /\ fs = [p \in Paths |-> FileAbsent]
    /\ pc = "call"
    /\ cfg \in [{"text1", "text2", "details", "geocode", "nearby"} -> Scripts]
    /\ leads = <<>>
    /\ seen_place_ids = {}
    /\ seen_domains = {}
    /\ ni = 1
    /\ ci = 1
    /\ places = <<>>
    /\ candidates = <<>>
    /\ fut = <<>>
    /\ runs = 0
    /\ crashes = 0
    /\ final_saved = FALSE
    /\ rerun = FALSE
    /\ prev_leads = <<>>
    /\ ret = None

\* places = collect_places_for_niche_city(client, niche, city, ...)
AdapterCall ==
    /\ pc = "call"
    /\ ret' = CollectPlaces(cfg)
    /\ pc' = "returned"
    /\ UNCHANGED <<vercel, fs, cfg, memory, loopvars, runs, crashes, ghosts>>

NextAdapter == AdapterCall

SpecAdapter == InitAdapter /\ [][NextAdapter]_vars

\* C15: every provider call of the commercial adapter (text search page,
\* nearby search page, geocode, place details) that fails with a
\* rate-limit-like error is retried, up to 5 attempts, before it is given up.
C15_EveryCallRetried ==
    pc = "returned" =>
        \A kind \in ret.made :
            cfg[kind].rate > 0 =>
                ret.calls[kind].attempts =
                    (IF cfg[kind].rate + 1 < max_retries THEN cfg[kind].rate + 1
                     ELSE max_retries)

\* C16: a provider error that is not rate-limit-like, or a rate-limit error
\* that survives the retries, propagates out of collect_places_for_niche_city
\* instead of the adapter returning a partial result.
C16_ErrorPropagates ==
    pc = "returned" =>
        ((\E kind \in ret.made : ret.calls[kind].raised) => ret.raised)

\* ------------------------------------------------------------------------
\* Properties of the worker pool and of the lifecycle of a lead
\* ------------------------------------------------------------------------
\* A step of the as_completed loop: it tests the budget, then takes the result
\* of a finished future or breaks.
BudgetChecked ==
    /\ pc = "pool"
    /\ \/ pc' = "drain"
       \/ \E i \in DOMAIN fut : fut[i] = "done" /\ fut'[i] = "taken"

\* Every dispatched task of the batch has completed.
AllCompleted == \A i \in DOMAIN fut : fut[i] \in {"done", "taken"}

\* C29 as stated: once the candidates of a batch are dispatched, the
\* orchestrator does not check the budget again until every dispatched task of
\* the batch has completed.
C29_NoBudgetCheckMidBatch == [][BudgetChecked => AllCompleted]_vars

\* C29 amended: no dispatched task is cancelled; the orchestrator leaves the
\* pool of a batch, also after the budget break, only when every dispatched task
\* has completed, and a task never goes back or is dropped in between.
C29_AllAwaited ==
    [][/\ (pc \in {"pool", "drain"} /\ pc' = "loop") => AllCompleted
       /\ (pc \in {"pool", "drain"} /\ pc' \in {"pool", "drain"}) =>
             \A i \in DOMAIN fut :
                /\ i \in DOMAIN fut'
                /\ fut[i] = "running" => fut'[i] \in {"running", "done"}
                /\ fut[i] = "queued" => fut'[i] \in {"queued", "running"}]_vars

\* The budget break has happened while a dispatched task has not even started.
C29_Witness ==
    /\ pc = "drain"
    /\ Queued # {}

\* C30: every place admitted by the ledger (its place_id in seen_place_ids)
\* has exactly one lead in the leads sequence when the run ends; the final
\* checkpoint records no place as seen that has not become a lead.
C30_AdmittedBecomesLead ==
    (AtExport /\ final_saved) =>
        \A id \in seen_place_ids :
            Cardinality({k \in DOMAIN leads : leads[k].place_id = id}) = 1

\* C21: run_collection called with an empty niches list or an empty cities list
\* raises before any work is done: the step that raises leaves every checkpoint
\* file as it was, and after it the run has ended with the error, having made
\* no adapter call, collected nothing and exported nothing.
C21_EmptyListsRefused ==
    /\ [][ret' = "ValueError" => (fs' = fs /\ pc' = "raised")]_vars
    /\ [](ret = "ValueError" =>
             /\ pc = "raised"
             /\ leads = <<>>
             /\ places = <<>>
             /\ seen_place_ids = {})

\* run_collection has refused empty lists although it was asked to clear the
\* checkpoint, and the checkpoint of the earlier run is still in place.
C21_Witness ==
    /\ pc = "raised"
    /\ ret = "ValueError"
    /\ cfg.clear_checkpoint
    /\ fs[RunCollectionPath(cfg.work_dir)] = LegacyCheckpoint

\* ------------------------------------------------------------------------
\* export_csv alone
\* ------------------------------------------------------------------------
\* fieldnames of the DictWriter.
columns ==
    <<"niche", "city", "business_name", "phone", "google_maps_url", "website_url",
      "emails_found">>

\* str(value).strip() for the field values of the leads below.
Strip(value) ==
    CASE value = " Nill " -> "Nill"
      [] value = " " -> ""
      [] OTHER -> value

\* The leads a caller may pass at position i: dicts that carry or lack
\* emails_found and website_url, with empty, sentinel, padded and real values.
ExportEmails == {"", "Nill", " Nill ", " ", "info@business.de"}
ExportWebsites == {"", "Nill", "https://business.de"}
ExportLeads(i) ==
    LET base == [niche |-> "Dentists", city |-> "Heidelberg",
                 business_name |-> IF i = 1 THEN "Test" ELSE "Test2"]
    IN  {base}
        \cup {[k \in DOMAIN base \cup {"emails_found"} |->
                  IF k = "emails_found" THEN e ELSE base[k]] : e \in ExportEmails}
        \cup {[k \in DOMAIN base \cup {"website_url"} |->
                  IF k = "website_url" THEN w ELSE base[k]] : w \in ExportWebsites}
        \cup {[k \in DOMAIN base \cup {"emails_found", "website_url"} |->
                  CASE k = "emails_found" -> e
                    [] k = "website_url" -> w
                    [] OTHER -> base[k]] : e \in ExportEmails, w \in ExportWebsites}

ExportLists ==
    UNION {{l \in [1..n -> UNION {ExportLeads(i) : i \in 1..MaxExport}] :
               \A i \in 1..n : l[i] \in ExportLeads(i)} : n \in 0..MaxExport}

\* lead.get(field) and str(lead.get(field, "")).strip() != "Nill"
HasValue(lead, field) ==
    /\ field \in DOMAIN lead
    /\ lead[field] # ""
    /\ Strip(lead[field]) # "Nill"

\* What csv.DictReader reads back for a written row: every column, "" for a
\* key the lead lacks, other keys ignored.
CsvRow(lead) == [c \in Range(columns) |-> IF c \in DOMAIN lead THEN lead[c] ELSE ""]

\* Variant of export_csv whose filter looks at emails_found only.
export_csv_EmailOnly(leads_, require_email_and_website) ==
    LET rows == IF require_email_and_website
                THEN SelectSeq(leads_, LAMBDA lead : HasValue(lead, "emails_found"))
                ELSE leads_
    IN  [header |-> columns, rows |-> [i \in DOMAIN rows |-> CsvRow(rows[i])]]

\* export_csv(leads, output_path, require_email_and_website): the file written.
export_csv(leads_, require_email_and_website) ==
    LET rows == IF require_email_and_website
                THEN SelectSeq(leads_, LAMBDA lead : /\ HasValue(lead, "emails_found")
                                                     /\ HasValue(lead, "website_url"))
                ELSE leads_
    IN  [header |-> columns, rows |-> [i \in DOMAIN rows |-> CsvRow(rows[i])]]

InitExport ==
    /\ vercel = FALSE
    /\ fs = [p \in Paths |-> FileAbsent]
    /\ pc = "call"
    /\ \E leads_ \in ExportLists, require_email_and_website \in BOOLEAN :
          cfg = [leads |-> leads_, require_email_and_website |-> require_email_and_website]
    /\ leads = <<>>
    /\ seen_place_ids = {}
    /\ seen_domains = {}
    /\ ni = 1
    /\ ci = 1
    /\ places = <<>>
    /\ candidates = <<>>
    /\ fut = <<>>
    /\ runs = 0
    /\ crashes = 0
    /\ final_saved = FALSE
    /\ rerun = FALSE
    /\ prev_leads = <<>>
    /\ ret = None

\* export_csv(leads, output_path[, require_email_and_website])
ExportCall ==
    /\ pc = "call"
    /\ ret' = export_csv(cfg.leads, cfg.require_email_and_website)
    /\ pc' = "returned"
    /\ UNCHANGED <<vercel, fs, cfg, memory, loopvars, runs, crashes, ghosts>>

NextExport == ExportCall

SpecExport == InitExport /\ [][NextExport]_vars

\* The field is non-empty and not the sentinel "Nill".
NonSentinel(lead, field) ==
    /\ field \in DOMAIN lead
    /\ lead[field] # ""
    /\ lead[field] # "Nill"

\* The field is non-empty and not the sentinel "Nill" once surrounding
\* whitespace is removed.
NonSentinelStripped(lead, field) ==
    /\ NonSentinel(lead, field)
    /\ Strip(lead[field]) # "Nill"

\* The rows of these leads, in their order.
RowsOf(leads_) == [i \in DOMAIN leads_ |-> CsvRow(leads_[i])]

C23_DefaultExportKeepsAll ==
    (pc = "returned" /\ cfg.require_email_and_website) =>
        Len(ret.rows) = Len(cfg.leads)

\* ------------------------------------------------------------------------
\* _normalize_website and the dedup domain alone
\* ------------------------------------------------------------------------
\* The pieces a raw website string of a provider is made of.
UrlTokens ==
    {"http://", "https://", "www.", "WWW.", "a.de", "A.DE", "foo.", "/", "/kontakt",
     "?", " ", "utm=1"}

\* The raw strings: a scheme stands at the start only (after whitespace).
RawWebsites ==
    UNION {{raw \in [1..n -> UrlTokens] :
               \A k \in 1..n : raw[k] \in SchemeTokens => \A m \in 1..(k - 1) : raw[m] = " "}
           : n \in 0..MaxUrlLen}

\* str.strip(): leading and trailing whitespace removed.
RECURSIVE LStrip(_)
LStrip(s) == IF s # <<>> /\ Head(s) = " " THEN LStrip(Tail(s)) ELSE s

RECURSIVE RStrip(_)
RStrip(s) ==
    IF s # <<>> /\ s[Len(s)] = " " THEN RStrip(SubSeq(s, 1, Len(s) - 1)) ELSE s

\* str.rstrip("/"): trailing slashes removed, those of a scheme at the end too.
RECURSIVE RStripSlash(_)
RStripSlash(s) ==
    IF s = <<>> THEN s
    ELSE LET front == SubSeq(s, 1, Len(s) - 1)
             last == s[Len(s)]
         IN  CASE last = "/" -> RStripSlash(front)
               [] last = "http://" -> front \o <<"http:">>
               [] last = "https://" -> front \o <<"https:">>
               [] OTHER -> s

\* url.split("?")[0]
RECURSIVE BeforeQuery(_)
BeforeQuery(s) ==
    IF s = <<>> \/ Head(s) = "?" THEN <<>> ELSE <<Head(s)>> \o BeforeQuery(Tail(s))

\* _normalize_website (utils/places.py and utils/osm_places.py, the same text).
_normalize_website(url) ==
    IF url = <<>> THEN <<>>
    ELSE LET stripped == RStrip(LStrip(url))
             cut == IF "?" \in Range(stripped)
                    THEN RStripSlash(BeforeQuery(stripped))
                    ELSE stripped
         IN  IF cut # <<>> /\ Head(cut) \notin SchemeTokens
             THEN <<"https://">> \o cut
             ELSE cut

InitUrl ==
    /\ vercel = FALSE
    /\ fs = [p \in Paths |-> FileAbsent]
    /\ pc = "call"
    /\ \E raw \in RawWebsites : cfg = [raw |-> raw]
    /\ leads = <<>>
    /\ seen_place_ids = {}
    /\ seen_domains = {}
    /\ ni = 1
    /\ ci = 1
    /\ places = <<>>
    /\ candidates = <<>>
    /\ fut = <<>>
    /\ runs = 0
    /\ crashes = 0
    /\ final_saved = FALSE
    /\ rerun = FALSE
    /\ prev_leads = <<>>
    /\ ret = None

\* _parse_place_details / _element_to_place on a raw website: the normalized
\* website, whether a place is returned (the website is not empty), the website
\* normalized once more, and the dedup domain the orchestrator computes.
NormalizeCall ==
    /\ pc = "call"
    /\ LET website == _normalize_website(cfg.raw) IN
       ret' = [website |-> website,
               returned |-> website # <<>>,
               again |-> _normalize_website(website),
               domain |-> get_domain_for_dedup(website)]
    /\ pc' = "returned"
    /\ UNCHANGED <<vercel, fs, cfg, memory, loopvars, runs, crashes, ghosts>>

NextUrl == NormalizeCall

SpecUrl == InitUrl /\ [][NextUrl]_vars

\* C24: the website of a place an adapter returns is an absolute URL that
\* starts with http:// or https://, holds no query string and does not end
\* with a slash.
C24_WebsiteInvariant ==
    (pc = "returned" /\ ret.returned) =>
        /\ Head(ret.website) \in SchemeTokens
        /\ "?" \notin Range(ret.website)
        /\ ret.website[Len(ret.website)] # "/"

\* C25: _normalize_website is idempotent on every input string.
C25_NormalizeIdempotent == pc = "returned" => ret.again = ret.website

\* str.removeprefix("www.") on a host.
RemoveLeadingWww(host) == IF host # <<>> /\ Head(host) = "www." THEN Tail(host) ELSE host

\* C26: the dedup domain of a URL is its host in lower case with only a
\* leading "www." removed, so that hosts which differ anywhere else have
\* different domains.
C26_DomainStripsLeadingWww ==
    (pc = "returned" /\ ret.returned /\ Netloc(ret.website) # <<>>) =>
        ret.domain = RemoveLeadingWww(LowerAll(Netloc(ret.website)))

\* C28: every place an adapter returns has a website from which a non-empty
\* host can be extracted.
C28_ReturnedPlaceHasHost ==
    (pc = "returned" /\ ret.returned) => Netloc(ret.website) # <<>>

\* ------------------------------------------------------------------------
\* extract_emails_from_html alone
\* ------------------------------------------------------------------------
INVALID_EMAIL_DOMAINS ==
    {"example.com", "example.org", "example.net", "test.com", "placeholder.com",
     "email.com", "domain.com", "sentry.io", "wixpress.com", "sentry.wixpress.com",
     "sentry-next.wixpress.com", "yoursite.com", "youremail.com"}

INVALID_EMAIL_DOMAIN_SUFFIXES == {".wixpress.com", ".sentry.io"}

\* The local parts and domains of the addresses EMAIL_PATTERN matches in the
\* markup: an address is local@domain.
MatchLocals ==
    {"info", "support", "abcdef0123456789abcd", "ABCDEF0123456789ABCD",
     "abcdef0123456789abc", "logo.png", "local-of-249-chars"}
MatchDomains ==
    {"business.de", "a.de", "example.com", "EXAMPLE.COM", "static.wixpress.com",
     "o1.ingest.sentry.io", "2x.jpg", "2X.PNG"}
Matches == [local : MatchLocals, domain : MatchDomains]

\* len() of a local part or domain.
StrLen(s) ==
    CASE s = "info" -> 4
      [] s = "support" -> 7
      [] s \in {"abcdef0123456789abcd", "ABCDEF0123456789ABCD"} -> 20
      [] s = "abcdef0123456789abc" -> 19
      [] s = "logo.png" -> 8
      [] s = "local-of-249-chars" -> 249
      [] s \in {"business.de", "example.com", "EXAMPLE.COM"} -> 11
      [] s = "a.de" -> 4
      [] s \in {"static.wixpress.com", "o1.ingest.sentry.io"} -> 19
      [] OTHER -> 6

\* str.lower() on a local part or domain.
StrLower(s) ==
    CASE s = "ABCDEF0123456789ABCD" -> "abcdef0123456789abcd"
      [] s = "EXAMPLE.COM" -> "example.com"
      [] s = "2X.PNG" -> "2x.png"
      [] OTHER -> s

\* domain.endswith(suffix)
EndsWith(domain, suffix) ==
    \/ suffix = ".wixpress.com" /\ domain = "static.wixpress.com"
    \/ suffix = ".sentry.io" /\ domain = "o1.ingest.sentry.io"

\* HEX_ID_PATTERN.match(local): hex digits only, 20 or more, any letter case.
HexId(local) == StrLower(local) = "abcdef0123456789abcd"

\* ".png" in email or ".jpg" in email, on the address as matched.
HasImageExtension(email) ==
    email.local = "logo.png" \/ email.domain = "2x.jpg"

\* Variant of _is_valid_email without the test of the local part.
_is_valid_email_NoHex(email) ==
    IF StrLen(email.local) + 1 + StrLen(email.domain) > 254 THEN FALSE
    ELSE LET domain == StrLower(email.domain) IN
         IF domain \in INVALID_EMAIL_DOMAINS THEN FALSE
         ELSE IF \E suffix \in INVALID_EMAIL_DOMAIN_SUFFIXES : EndsWith(domain, suffix)
         THEN FALSE
         ELSE ~HasImageExtension(email)

_is_valid_email(email) ==
    IF StrLen(email.local) + 1 + StrLen(email.domain) > 254 THEN FALSE
    ELSE LET local == StrLower(email.local)
             domain == StrLower(email.domain)
         IN  IF domain \in INVALID_EMAIL_DOMAINS THEN FALSE
             ELSE IF \E suffix \in INVALID_EMAIL_DOMAIN_SUFFIXES : EndsWith(domain, suffix)
             THEN FALSE
             ELSE IF HexId(local) THEN FALSE
             ELSE ~HasImageExtension(email)

\* extract_emails_from_html: the valid matches, each once, in markup order.
RECURSIVE ExtractFrom(_, _)
ExtractFrom(matches, results) ==
    IF matches = <<>> THEN results
    ELSE LET email == Head(matches) IN
         IF email \notin Range(results) /\ _is_valid_email(email)
         THEN ExtractFrom(Tail(matches), Append(results, email))
         ELSE ExtractFrom(Tail(matches), results)

extract_emails_from_html(matches) == ExtractFrom(matches, <<>>)

InitEmail ==
    /\ vercel = FALSE
    /\ fs = [p \in Paths |-> FileAbsent]
    /\ pc = "call"
    /\ \E html \in UNION {[1..n -> Matches] : n \in 0..MaxMatches} : cfg = [html |-> html]
    /\ leads = <<>>
    /\ seen_place_ids = {}
    /\ seen_domains = {}
    /\ ni = 1
    /\ ci = 1
    /\ places = <<>>
    /\ candidates = <<>>
    /\ fut = <<>>
    /\ runs = 0
    /\ crashes = 0
    /\ final_saved = FALSE
    /\ rerun = FALSE
    /\ prev_leads = <<>>
    /\ ret = None

\* emails = extract_emails_from_html(html)
ExtractCall ==
    /\ pc = "call"
    /\ ret' = extract_emails_from_html(cfg.html)
    /\ pc' = "returned"
    /\ UNCHANGED <<vercel, fs, cfg, memory, loopvars, runs, crashes, ghosts>>

NextEmail == ExtractCall

SpecEmail == InitEmail /\ [][NextEmail]_vars

\* The conditions of the validity filter: at most 254 characters, domain not
\* on the placeholder list and without an internal analytics suffix, local
\* part not a hex string of 20 or more characters, no image extension.
PassesFilter(email) ==
    /\ StrLen(email.local) + 1 + StrLen(email.domain) <= 254
    /\ StrLower(email.domain) \notin INVALID_EMAIL_DOMAINS
    /\ \A suffix \in INVALID_EMAIL_DOMAIN_SUFFIXES : ~EndsWith(StrLower(email.domain), suffix)
    /\ ~(HexId(email.local) /\ StrLen(email.local) >= 20)
    /\ ~HasImageExtension(email)

\* C27: extract_emails_from_html returns an address matched in the markup if
\* and only if it passes the validity filter; returned addresses keep the order
\* of the markup and appear once.
C27_EmailValidityFilter ==
    pc = "returned" =>
        /\ \A email \in Range(cfg.html) : email \in Range(ret) <=> PassesFilter(email)
        /\ Range(ret) \subseteq Range(cfg.html)
        /\ \A i, j \in DOMAIN ret : i # j => ret[i] # ret[j]

\* The markup held an ordinary business address and a placeholder-domain
\* address: the first was returned, the second was not.
C27_Witness ==
    /\ pc = "returned"
    /\ cfg.html = <<[local |-> "info", domain |-> "business.de"],
                    [local |-> "support", domain |-> "example.com"]>>
    /\ ret = <<[local |-> "info", domain |-> "business.de"]>>

\* ------------------------------------------------------------------------
\* Nothing is collected at or over budget
\* ------------------------------------------------------------------------
\* The step is the place source adapter call of a pair.
AdapterCalled == pc = "loop" /\ pc' \in {"g_place", "o_place"}

\* C31: in a step of a run taken with the lead count at or above the budget,
\* the orchestrator calls no place source adapter, admits no place to the
\* ledger and appends no lead.
C31_NothingCollectedAtBudget ==
    [][RunStep /\ BudgetReached =>
          /\ ~AdapterCalled
          /\ seen_place_ids' = seen_place_ids
          /\ seen_domains' = seen_domains
          /\ leads' = leads]_vars

\* The run reached its budget with leads of its own and pairs still unvisited.
C31_Witness ==
    /\ pc = "loop"
    /\ BudgetReached
    /\ ni <= Len(Niches)
    /\ leads # <<>>
    /\ Len(leads) = cfg.max_leads

\* ------------------------------------------------------------------------
\* _call_with_retry alone, one attempt per step
\* ------------------------------------------------------------------------
\* What one invocation of the wrapped call does: it returns its value or
\* raises an exception with one of these messages.
FnValue == "places"
FnErrors == {"OVER_QUERY_LIMIT", "HTTP Error: 429", "Rate limit exceeded", "REQUEST_DENIED"}
FnOutcomes == {FnValue} \cup FnErrors

\* needle in str(e).lower()
ErrStrHas(e, needle) ==
    \/ needle = "over_query_limit" /\ e = "OVER_QUERY_LIMIT"
    \/ needle = "rate" /\ e = "Rate limit exceeded"
    \/ needle = "429" /\ e = "HTTP Error: 429"

\* if "over_query_limit" in err_str or "rate" in err_str or "429" in err_str
RateLimitLike(e) ==
    ErrStrHas(e, "over_query_limit") \/ ErrStrHas(e, "rate") \/ ErrStrHas(e, "429")

\* The frame of _call_with_retry: loop index, invocations made, sleeps taken,
\* last_error, and the value returned or exception raised.
RetryFrame(attempt, calls, sleeps, last_error, out) ==
    [attempt |-> attempt, calls |-> calls, sleeps |-> sleeps,
     last_error |-> last_error, out |-> out]

InitRetry ==
    /\ vercel = FALSE
    /\ fs = [p \in Paths |-> FileAbsent]
    /\ pc = "retry"
    /\ \E outcomes \in [1..MaxCalls -> FnOutcomes] : cfg = [outcomes |-> outcomes]
    /\ leads = <<>>
    /\ seen_place_ids = {}
    /\ seen_domains = {}
    /\ ni = 1
    /\ ci = 1
    /\ places = <<>>
    /\ candidates = <<>>
    /\ fut = <<>>
    /\ runs = 0
    /\ crashes = 0
    /\ final_saved = FALSE
    /\ rerun = FALSE
    /\ prev_leads = <<>>
    /\ ret = RetryFrame(0, 0, <<>>, None, None)

\* The outcome of the invocation the loop body is about to make.
NextOutcome == cfg.outcomes[ret.calls + 1]

\* Variant of AttemptBacksOff for "while True": the loop index is not counted.
AttemptBacksOff_Forever ==
    /\ pc = "retry"
    /\ ret.calls < MaxCalls
    /\ NextOutcome \in FnErrors
    /\ RateLimitLike(NextOutcome)
    /\ ret' = RetryFrame(ret.attempt, ret.calls + 1,
                         Append(ret.sleeps, base_delay * 2^ret.attempt),
                         NextOutcome, None)
    /\ UNCHANGED <<vercel, fs, pc, cfg, memory, loopvars, runs, crashes, ghosts>>

\* return fn(*args, **kwargs)
AttemptReturns ==
    /\ pc = "retry"
    /\ ret.attempt < max_retries
    /\ NextOutcome \notin FnErrors
    /\ ret' = RetryFrame(ret.attempt, ret.calls + 1, ret.sleeps, ret.last_error, NextOutcome)
    /\ pc' = "returned"
    /\ UNCHANGED <<vercel, fs, cfg, memory, loopvars, runs, crashes, ghosts>>

\* except Exception as e: ... else: raise
AttemptRaises ==
    /\ pc = "retry"
    /\ ret.attempt < max_retries
    /\ NextOutcome \in FnErrors
    /\ ~RateLimitLike(NextOutcome)
    /\ ret' = RetryFrame(ret.attempt, ret.calls + 1, ret.sleeps, NextOutcome, NextOutcome)
    /\ pc' = "raised"
    /\ UNCHANGED <<vercel, fs, cfg, memory, loopvars, runs, crashes, ghosts>>

\* except Exception as e: a rate-limit-like error: time.sleep(delay), next attempt.
AttemptBacksOff ==
    /\ pc = "retry"
    /\ ret.attempt < max_retries
    /\ NextOutcome \in FnErrors
    /\ RateLimitLike(NextOutcome)
    /\ ret' = RetryFrame(ret.attempt + 1, ret.calls + 1,
                         Append(ret.sleeps, base_delay * 2^ret.attempt),
                         NextOutcome, None)
    /\ UNCHANGED <<vercel, fs, pc, cfg, memory, loopvars, runs, crashes, ghosts>>

\* The loop has run max_retries times: raise last_error
RetriesExhausted ==
    /\ pc = "retry"
    /\ ret.attempt = max_retries
    /\ ret' = [ret EXCEPT !.out = ret.last_error]
    /\ pc' = "raised"
    /\ UNCHANGED <<vercel, fs, cfg, memory, loopvars, runs, crashes, ghosts>>

NextRetry ==
    \/ AttemptReturns
    \/ AttemptRaises
    \/ AttemptBacksOff
    \/ RetriesExhausted

\* The thread running _call_with_retry keeps running.
SpecRetry == InitRetry /\ [][NextRetry]_vars /\ WF_vars(NextRetry)

\* The first k outcomes are all rate-limit-like errors.
RateLimitedUpTo(k) ==
    \A n \in 1..k : cfg.outcomes[n] \in FnErrors /\ RateLimitLike(cfg.outcomes[n])

\* The delays of k consecutive rate-limit failures: base_delay * 2^0, ..., 2^(k-1).
Backoff(k) == [n \in 1..k |-> base_delay * 2^(n - 1)]

\* What holds of the frame at every moment: at most max_retries invocations,
\* and while the loop runs every invocation made was rate-limited and was
\* followed by one sleep of the doubling delay.
RetryBounded ==
    /\ ret.calls <= max_retries
    /\ pc = "retry" => RateLimitedUpTo(ret.calls) /\ ret.sleeps = Backoff(ret.calls)

\* The call has returned: the value of its first successful invocation.
RetryReturned ==
    pc = "returned" =>
        /\ ret.out = FnValue
        /\ cfg.outcomes[ret.calls] = FnValue
        /\ RateLimitedUpTo(ret.calls - 1)
        /\ ret.sleeps = Backoff(ret.calls - 1)

\* The call has raised: either an error that is not rate-limit-like, raised by
\* the invocation that met it with no sleep after it, or the last rate-limit
\* error after max_retries invocations.
RetryRaised ==
    pc = "raised" =>
        /\ ret.out = cfg.outcomes[ret.calls]
        /\ ret.out \in FnErrors
        /\ RateLimitedUpTo(ret.calls - 1)
        /\ IF RateLimitLike(ret.out)
           THEN ret.calls = max_retries /\ ret.sleeps = Backoff(max_retries)
           ELSE ret.sleeps = Backoff(ret.calls - 1)

\* C32: _call_with_retry always terminates; it invokes the wrapped call at
\* most max_retries times, sleeps base_delay * 2^k after the k-th consecutive
\* rate-limit failure, returns the first successful result, re-raises an error
\* that is not rate-limit-like at once, and re-raises the last rate-limit error
\* when the last allowed attempt fails.
C32_RetryTerminates ==
    /\ [](RetryBounded /\ RetryReturned /\ RetryRaised)
    /\ <>(pc \in {"returned", "raised"})

\* Five rate-limit failures in a row: the call slept 2, 4, 8, 16 and 32 seconds
\* and raised the fifth error although a sixth invocation would have succeeded.
C32_Witness ==
    /\ pc = "raised"
    /\ cfg.outcomes[MaxCalls] = FnValue
    /\ ret.calls = max_retries
    /\ ret.sleeps = <<2, 4, 8, 16, 32>>
    /\ ret.out = "HTTP Error: 429"

\* ------------------------------------------------------------------------
\* The nearby-search fallback of collect_places_for_niche_city
\* ------------------------------------------------------------------------
\* The raw results the text query yielded against the provider at hand.
RawTextResults == text_search_places(cfg).results

\* The call made the nearby search.
FallbackPerformed == "nearby" \in ret.made

\* The ids and the domains of a list of places are pairwise distinct.
DistinctPlaces(ps) ==
    \A i, j \in DOMAIN ps :
        i # j => /\ ps[i].place_id # ps[j].place_id
                 /\ get_domain_for_dedup(ps[i].website) # get_domain_for_dedup(ps[j].website)

\* C33: collect_places_for_niche_city makes the nearby search exactly when the
\* text query yielded fewer raw results than min_text_results and the city
\* geocodes; the places it returns have pairwise distinct place_ids and
\* pairwise distinct website domains.
C33_NearbyFallback ==
    pc = "returned" =>
        /\ FallbackPerformed <=>
              (Len(RawTextResults) < min_text_results /\ geocode_city(cfg).coords)
        /\ DistinctPlaces(ret.places)

\* The text query yielded its first page only; the nearby search added the one
\* result that repeats neither an id nor a domain of the text results.
C33_Witness ==
    /\ pc = "returned"
    /\ RawTextResults = TextPage1
    /\ FallbackPerformed
    /\ ~cfg.nearby.rate > 0 /\ cfg.nearby.then = "ok"
    /\ ret.places = <<pA, pF>>

\* ------------------------------------------------------------------------
\* get_city_bbox and its cache (utils/osm_places.py)
\* ------------------------------------------------------------------------
\* Coordinates are in hundredths of a degree; a box is <<south, west, north,
\* east>> and <<>> stands for None.
BboxCities == {"Berlin", " Berlin ", "Hamburg"}

\* cache_key = (city.strip(), country.strip()) with country "Germany"
CacheKey(city) == IF city = " Berlin " THEN "Berlin" ELSE city
CacheKeys == {CacheKey(city) : city \in BboxCities}

\* One element of the list Nominatim answers with: its boundingbox (south,
\* north, west, east; <<>> when it has none) and its lat and lon (<<>> when
\* missing).
NominatimItem(boundingbox, lat, lon) ==
    [boundingbox |-> boundingbox, lat |-> lat, lon |-> lon]

\* What a request to Nominatim can end in: an exception, an empty list, or a
\* list whose first element has a bounding box, a point only, or neither.
NominatimAnswers ==
    {[raised |-> TRUE, data |-> <<>>], [raised |-> FALSE, data |-> <<>>]}
    \cup {[raised |-> FALSE, data |-> <<item>>] :
            item \in {NominatimItem(<<5230, 5270, 1310, 1370>>, <<5250>>, <<1340>>),
                      NominatimItem(<<5231, 5270, 1310, 1370>>, <<5250>>, <<1340>>),
                      NominatimItem(<<>>, <<5250>>, <<1340>>),
                      NominatimItem(<<>>, <<5251>>, <<1340>>),
                      NominatimItem(<<5230, 5270>>, <<>>, <<>>)}}

\* delta = 0.05
delta == 5

\* The body of get_city_bbox after a cache miss: the box returned (<<>> for
\* None) and whether it is stored in _bbox_cache.
BboxLookup(answer) ==
    IF answer.raised \/ answer.data = <<>> THEN [result |-> <<>>, store |-> FALSE]
    ELSE LET b == answer.data[1].boundingbox
             lat == answer.data[1].lat
             lon == answer.data[1].lon
         IN  IF b = <<>> \/ Len(b) # 4
             THEN IF lat # <<>> /\ lon # <<>>
                  THEN [result |-> <<lat[1] - delta, lon[1] - delta,
                                     lat[1] + delta, lon[1] + delta>>,
                        store |-> FALSE]
                  ELSE [result |-> <<>>, store |-> FALSE]
             ELSE [result |-> <<b[1], b[3], b[2], b[4]>>, store |-> TRUE]

\* The process: _bbox_cache, the calls made so far, the first box each key
\* was answered with, and the call that returned last (its key, its result,
\* whether it sent a request, and the box the key had been answered with
\* before it).
InitBbox ==
    /\ vercel = FALSE
    /\ fs = [p \in Paths |-> FileAbsent]
    /\ pc = "call"
    /\ cfg = NoCfg
    /\ leads = <<>>
    /\ seen_place_ids = {}
    /\ seen_domains = {}
    /\ ni = 1
    /\ ci = 1
    /\ places = <<>>
    /\ candidates = <<>>
    /\ fut = <<>>
    /\ runs = 0
    /\ crashes = 0
    /\ final_saved = FALSE
    /\ rerun = FALSE
    /\ prev_leads = <<>>
    /\ ret = [_bbox_cache |-> [k \in CacheKeys |-> <<>>],
              calls |-> 0,
              first |-> [k \in CacheKeys |-> <<>>],
              last |-> [key |-> None, result |-> <<>>, requested |-> FALSE,
                        before |-> <<>>]]

\* get_city_bbox(city) answered from the cache.
BboxCacheHit(city) ==
    /\ ret.calls < MaxBboxCalls
    /\ ret._bbox_cache[CacheKey(city)] # <<>>
    /\ ret' = [ret EXCEPT !.calls = @ + 1,
                          !.last = [key |-> CacheKey(city),
                                    result |-> ret._bbox_cache[CacheKey(city)],
                                    requested |-> FALSE,
                                    before |-> ret.first[CacheKey(city)]]]
    /\ UNCHANGED <<vercel, fs, pc, cfg, memory, loopvars, runs, crashes, ghosts>>

\* get_city_bbox(city) after a cache miss: one request to Nominatim.
BboxCacheMiss(city, answer) ==
    /\ ret.calls < MaxBboxCalls
    /\ ret._bbox_cache[CacheKey(city)] = <<>>
    /\ LET key == CacheKey(city)
           looked == BboxLookup(answer)
       IN  ret' = [_bbox_cache |-> IF looked.store
                                   THEN [ret._bbox_cache EXCEPT ![key] = looked.result]
                                   ELSE ret._bbox_cache,
                   calls |-> ret.calls + 1,
                   first |-> IF ret.first[key] = <<>>
                             THEN [ret.first EXCEPT ![key] = looked.result]
                             ELSE ret.first,
                   last |-> [key |-> key, result |-> looked.result, requested |-> TRUE,
                             before |-> ret.first[key]]]
    /\ UNCHANGED <<vercel, fs, pc, cfg, memory, loopvars, runs, crashes, ghosts>>

NextBbox ==
    \E city \in BboxCities :
        \/ BboxCacheHit(city)
        \/ \E answer \in NominatimAnswers : BboxCacheMiss(city, answer)

SpecBbox == InitBbox /\ [][NextBbox]_vars

\* C34: once get_city_bbox has returned a box for a (city, country) pair,
\* every later call for the pair returns the same box without another
\* request, whether the first box came from a bounding box or from the
\* point-with-margin fallback; a failed lookup leaves the cache as it was.
C34_GeocodeCache ==
    /\ ret.last.before # <<>> =>
          ret.last.result = ret.last.before /\ ~ret.last.requested
    /\ \A k \in CacheKeys : ret._bbox_cache[k] # <<>> => ret.first[k] = ret._bbox_cache[k]

\* ------------------------------------------------------------------------
\* Durability of checkpointed progress
\* ------------------------------------------------------------------------
\* The number of leads a resume would load from a file.
LeadsOnResume(file) == Len(load_checkpoint(file).val.leads)

\* C35: from the start of a run on, through every later step of the run and
\* through a crash at any point, a crash in the middle of a checkpoint write
\* included, the checkpoint of the run never comes to hold fewer leads than a
\* successful save had put in it: a resume loads at least those leads.
C35_ProgressDurable ==
    [][pc \notin {"idle", "done"} =>
          LeadsOnResume(fs'[CkptPath]) >= LeadsOnResume(fs[CkptPath])]_vars

\* ------------------------------------------------------------------------
\* The pages a harvest fetches
\* ------------------------------------------------------------------------
\* C36: every page extract_emails_from_website fetches is a URL the robots
\* policy of the host, when it can be read, allows for the harvester's user
\* agent, and at most max_pages pages are fetched per website.
C36_FetchedPagesAllowed ==
    pc = "returned" =>
        /\ Len(ret.fetched) <= max_pages
        /\ cfg.site.robots # "error" =>
              \A i \in DOMAIN ret.fetched : RobotsCanFetch(cfg.site, ret.fetched[i])

\* ------------------------------------------------------------------------
\* The export of a run with harvesting disabled
\* ------------------------------------------------------------------------
\* The default filter of export_csv on a lead of the pipeline: emails_found and
\* website_url both present and not "Nill".
Contactable(lead) ==
    /\ HasValue(lead, "emails_found")
    /\ lead.website_url \notin {<<>>, Nill}

\* The data rows export_csv(leads, output_path) writes under the header.
ExportedRows(leads_) == SelectSeq(leads_, Contactable)

============================================================================
